---- MODULE Spec2Model ----
(***************************************************************************)
(* A model of card_extractor.py: the schema resolver (detect_file_type,    *)
(* get_field_value), the formatter (extract_character_fields,              *)
(* extract_lorebook_fields, extract_fields), the import session            *)
(* (import_json, handle_file_import, reset_interface) and the line scanner *)
(* of create_pdf.                                                          *)
(*                                                                         *)
(* A Python str is a sequence of code points (naturals), so that           *)
(* ord(c) < 128, str.lower, str.strip and the comparison of strings are    *)
(* what they are in Python.  A JSON value is a record [t, v]: t is the     *)
(* type tag and v the payload; a dict is the sequence of its <<key, value>>*)
(* items in insertion order, with keys as TLA+ strings.  Python's None and *)
(* JSON's null are the same value, as in the program.                      *)
(***************************************************************************)
EXTENDS Naturals, Integers, Sequences, FiniteSets, TLC

VARIABLES
    json_data,          \* self.json_data
    selected_fields,    \* self.selected_fields
    file_type,          \* self.file_type
    extracted_text,     \* self.extracted_text
    preview_text,       \* the tagged runs held by the preview Text widget
    extract_btn,        \* the Extract Fields button: packed, state
    ui,                 \* where import_json stands: idle, or waiting in a dialog
    card_stems,         \* history: per card of json_data, its name key of import_json
    pdf_pc,             \* create_pdf: "idle", "scan", "done"
    lines,              \* create_pdf: lines
    i,                  \* create_pdf: i (1-based here)
    buffer,             \* create_pdf: buffer
    story,              \* create_pdf: story
    found_char_name,    \* create_pdf: found_char_name
    is_lorebook,        \* create_pdf: is_lorebook
    current_section,    \* create_pdf: current_section
    in_example_messages,\* create_pdf: in_example_messages
    raised,             \* create_pdf: the exception its handler caught and the one it raised
    messages,           \* the message boxes the last handler showed
    written,            \* the file the last handler wrote, if it was a save that wrote one
    call,               \* a direct call of a module-level function: its name and arguments
    ret                 \* what that call returned

vars ==
    <<json_data, selected_fields, file_type, extracted_text, preview_text,
      extract_btn, ui, card_stems, pdf_pc, lines, i, buffer, story,
      found_char_name, is_lorebook, current_section, in_example_messages,
      raised, messages, written, call, ret>>

session_vars ==
    <<json_data, selected_fields, file_type, extracted_text, preview_text,
      extract_btn, card_stems>>

pdf_vars ==
    <<pdf_pc, lines, i, buffer, story, found_char_name, is_lorebook, raised,
      current_section, in_example_messages>>

call_vars ==
    <<call, ret>>

----------------------------------------------------------------------------
(* Code points.                                                            *)

\* '\n'
NL ==
    10

\* ' '
SP ==
    32

\* '='
EQ ==
    61

\* U+2500, the rule character of the separators
DASH ==
    9472

\* U+25BA, the bullet glyph
BULLET ==
    9658

\* U+25A0
BLACK_SQUARE ==
    9632

\* U+25A1
WHITE_SQUARE ==
    9633

\* the characters str.strip and str.rstrip remove (str.isspace)
IsSpace(c) ==
    \/ c \in 9..13
    \/ c \in 28..32
    \/ c \in {133, 160, 5760, 8232, 8233, 8239, 8287, 12288}
    \/ c \in 8192..8202

----------------------------------------------------------------------------
(* Python str operations, on sequences of code points.                     *)

\* c * n
Rep(c, n) ==
    [k \in 1..n |-> c]

\* s.lstrip()
LStrip(s) ==
    LET keep == {k \in 1..Len(s) : ~IsSpace(s[k])}
    IN  IF keep = {} THEN <<>>
        ELSE SubSeq(s, CHOOSE k \in keep : \A m \in keep : k <= m, Len(s))

\* s.rstrip()
RStrip(s) ==
    LET keep == {k \in 1..Len(s) : ~IsSpace(s[k])}
    IN  IF keep = {} THEN <<>>
        ELSE SubSeq(s, 1, CHOOSE k \in keep : \A m \in keep : k >= m)

\* s.strip()
Strip(s) ==
    LStrip(RStrip(s))

\* all(c == ch for c in s): true of the empty string
AllChar(s, ch) ==
    \A k \in 1..Len(s) : s[k] = ch

\* s.startswith(p)
StartsWith(s, p) ==
    /\ Len(p) <= Len(s)
    /\ SubSeq(s, 1, Len(p)) = p

\* sub in s, for strings
Contains(s, sub) ==
    \E k \in 0..(Len(s) - Len(sub)) : SubSeq(s, k + 1, k + Len(sub)) = sub

\* s.lower(), on the ASCII letters
Lower(s) ==
    [k \in 1..Len(s) |-> IF s[k] \in 65..90 THEN s[k] + 32 ELSE s[k]]

\* a <= b, the comparison of Python strings (by code point, then by length)
StrLeq(a, b) ==
    LET diff == {k \in 1..Len(a) : k > Len(b) \/ a[k] # b[k]}
    IN  IF diff = {} THEN TRUE
        ELSE LET k == CHOOSE x \in diff : \A y \in diff : x <= y
             IN  k <= Len(b) /\ a[k] < b[k]

RECURSIVE SplitFrom(_, _, _)
\* the pieces of s from position start on, cut at every ch
SplitFrom(s, ch, start) ==
    LET at == {k \in start..Len(s) : s[k] = ch}
    IN  IF at = {} THEN <<SubSeq(s, start, Len(s))>>
        ELSE LET k == CHOOSE x \in at : \A y \in at : x <= y
             IN  <<SubSeq(s, start, k - 1)>> \o SplitFrom(s, ch, k + 1)

\* s.split(ch)
Split(s, ch) ==
    SplitFrom(s, ch, 1)

RECURSIVE Join(_, _)
\* sep.join(parts)
Join(parts, sep) ==
    IF Len(parts) = 0 THEN <<>>
    ELSE IF Len(parts) = 1 THEN parts[1]
    ELSE parts[1] \o sep \o Join(Tail(parts), sep)

RECURSIVE Concat(_)
\* ''.join(parts)
Concat(parts) ==
    IF Len(parts) = 0 THEN <<>> ELSE parts[1] \o Concat(Tail(parts))

RECURSIVE Digits(_)
\* str(n) for an int n >= 0
Digits(n) ==
    IF n < 10 THEN <<48 + n>> ELSE Digits(n \div 10) \o <<48 + (n % 10)>>

----------------------------------------------------------------------------
(* The string literals of the source.                                      *)

\* 'key'
S_key ==
    <<107,101,121>>

\* 'content'
S_content ==
    <<99,111,110,116,101,110,116>>

\* 'comment'
S_comment ==
    <<99,111,109,109,101,110,116>>

\* 'chara_card'
S_chara_card ==
    <<99,104,97,114,97,95,99,97,114,100>>

\* 'Unnamed Character'
S_Unnamed_Character ==
    <<85,110,110,97,109,101,100,32,67,104,97,114,97,99,116,101,114>>

\* 'CHARACTER DEFINITION'
S_CHARACTER_DEFINITION ==
    <<67,72,65,82,65,67,84,69,82,32,68,69,70,73,78,73,84,73,79,78>>

\* 'PERSONALITY'
S_PERSONALITY ==
    <<80,69,82,83,79,78,65,76,73,84,89>>

\* 'CHARACTER NOTE'
S_CHARACTER_NOTE ==
    <<67,72,65,82,65,67,84,69,82,32,78,79,84,69>>

\* 'SCENARIO'
S_SCENARIO ==
    <<83,67,69,78,65,82,73,79>>

\* 'FIRST MESSAGE'
S_FIRST_MESSAGE ==
    <<70,73,82,83,84,32,77,69,83,83,65,71,69>>

\* 'EXAMPLE MESSAGES'
S_EXAMPLE_MESSAGES ==
    <<69,88,65,77,80,76,69,32,77,69,83,83,65,71,69,83>>

\* 'ALTERNATE GREETINGS'
S_ALTERNATE_GREETINGS ==
    <<65,76,84,69,82,78,65,84,69,32,71,82,69,69,84,73,78,71,83>>

\* 'CHARACTER BOOK'
S_CHARACTER_BOOK ==
    <<67,72,65,82,65,67,84,69,82,32,66,79,79,75>>

\* 'CHARACTER'
S_CHARACTER ==
    <<67,72,65,82,65,67,84,69,82>>

\* 'Keys:'
S_Keys ==
    <<75,101,121,115,58>>

\* 'Keys: '
S_Keys_sp ==
    <<75,101,121,115,58,32>>

\* 'Greeting'
S_Greeting ==
    <<71,114,101,101,116,105,110,103>>

\* '► Greeting '
S_bullet_Greeting_sp ==
    <<9658,32,71,114,101,101,116,105,110,103,32>>

\* '► '
S_bullet_sp ==
    <<9658,32>>

\* '->'
S_arrow ==
    <<45,62>>

\* '<br/>'
S_br ==
    <<60,98,114,47,62>>

\* ', '
S_comma_sp ==
    <<44,32>>

\* 'True'
S_True ==
    <<84,114,117,101>>

\* 'False'
S_False ==
    <<70,97,108,115,101>>

\* 'entries'
S_entries ==
    <<101,110,116,114,105,101,115>>

\* 'out'
OUT_STEM ==
    <<111,117,116>>

\* '.json'
S_json_ext ==
    <<46,106,115,111,110>>

\* 'Fields selected for extraction:\n\n'
S_Fields_selected ==
    <<70,105,101,108,100,115,32,115,101,108,101,99,116,101,100,32,102,111,114,32,101,120,116,114,97,99,116,105,111,110,58,10,10>>

\* '• '
S_dot_sp ==
    <<8226,32>>

----------------------------------------------------------------------------
(* JSON values, as json.load yields them.                                  *)

JStr(s) ==
    [t |-> "str", v |-> s]

JNum(n) ==
    [t |-> "num", v |-> n]

JList(xs) ==
    [t |-> "list", v |-> xs]

\* items: the <<key, value>> pairs in insertion order
JDict(items) ==
    [t |-> "dict", v |-> items]

\* None, and JSON null
None ==
    [t |-> "null", v |-> 0]

IsDict(x) ==
    x.t = "dict"

IsList(x) ==
    x.t = "list"

IsStr(x) ==
    x.t = "str"

\* x is None
IsNone(x) ==
    x.t = "null"

\* the marker of a call that raised instead of returning
Raised ==
    [t |-> "raise", v |-> 0]

\* key in d, for a dict d
HasKey(d, key) ==
    \E n \in 1..Len(d.v) : d.v[n][1] = key

\* d[key], for a dict d holding key
Item(d, key) ==
    d.v[CHOOSE n \in 1..Len(d.v) : d.v[n][1] = key][2]

\* d.get(key, default)
Get(d, key, default) ==
    IF HasKey(d, key) THEN Item(d, key) ELSE default

\* bool(x): the truth value Python gives x
Truthy(x) ==
    CASE x.t = "null" -> FALSE
      [] x.t = "bool" -> x.v
      [] x.t = "num"  -> x.v # 0
      [] OTHER        -> Len(x.v) > 0

\* str(x), as the f-strings format a value, for the scalars (the repr of a
\* container is outside the documents of this model)
PyStr(x) ==
    CASE x.t = "str"  -> x.v
      [] x.t = "num"  -> Digits(x.v)
      [] x.t = "bool" -> IF x.v THEN S_True ELSE S_False

\* the outcome `word in x` of Python's `in`: "yes", "no", or "raise" (TypeError)
\* when x is no container. word is a key name, wordText its characters.
PyIn(word, wordText, x) ==
    CASE x.t = "dict" -> IF HasKey(x, word) THEN "yes" ELSE "no"
      [] x.t = "list" -> IF \E n \in 1..Len(x.v) :
                                x.v[n].t = "str" /\ x.v[n].v = wordText
                         THEN "yes" ELSE "no"
      [] x.t = "str"  -> IF Contains(x.v, wordText) THEN "yes" ELSE "no"
      [] OTHER        -> "raise"

----------------------------------------------------------------------------
(* Schema resolver.                                                        *)

\* char_card_fields without its last field: a faulty list, which the statement
\* on the character-field set must tell from the source's
char_card_fields_short ==
    <<"name", "first_mes", "description", "personality", "char_name",
      "char_persona", "char_greeting", "example_dialogue", "avatar", "chat",
      "persona", "greeting">>

\* char_card_fields of check_char_fields
char_card_fields ==
    <<"name", "first_mes", "description", "personality",
      "char_name", "char_persona", "char_greeting", "example_dialogue",
      "avatar", "chat", "persona", "greeting", "mes_example">>

\* check_char_fields(data), data a dict
check_char_fields(data) ==
    \E n \in 1..Len(char_card_fields) : HasKey(data, char_card_fields[n])

\* the lorebook test of detect_file_type: "yes", "no", or "raise" when
\* `key in first_entry` is a TypeError
lorebook_check(d) ==
    IF HasKey(d, "entries") /\ IsDict(Item(d, "entries"))
    THEN LET entries == Item(d, "entries")
             first_entry == IF Len(entries.v) = 0 THEN JDict(<<>>)
                            ELSE entries.v[1][2]
             hits == <<PyIn("key", S_key, first_entry),
                       PyIn("content", S_content, first_entry),
                       PyIn("comment", S_comment, first_entry)>>
         IN  IF hits[1] = "raise" THEN "raise"
             ELSE IF \E n \in 1..3 : hits[n] = "yes" THEN "yes" ELSE "no"
    ELSE "no"

\* the test of the spec string of detect_file_type
spec_check(d) ==
    LET spec == Get(d, "spec", JStr(<<>>))
    IN  IsStr(spec) /\ Contains(Lower(spec.v), S_chara_card)

\* the test of the 'data' subfield of detect_file_type
data_check(d) ==
    /\ HasKey(d, "data")
    /\ IsDict(Item(d, "data"))
    /\ check_char_fields(Item(d, "data"))

\* detect_file_type with the test of the spec string and of the character
\* fields ahead of the lorebook test: a faulty order, which the statement on
\* the lorebook test running first must tell from the source's
detect_file_type_spec_first(d) ==
    IF ~IsDict(d) THEN "raise"
    ELSE IF spec_check(d) THEN "character"
    ELSE IF check_char_fields(d) THEN "character"
    ELSE LET lore == lorebook_check(d)
         IN  IF lore = "yes" THEN "lorebook"
             ELSE IF lore = "raise" THEN "raise"
             ELSE IF data_check(d) THEN "character"
             ELSE "unknown"

\* detect_file_type(json_data): "lorebook", "character", "unknown", or "raise"
\* (json_data.get on a value that is no dict, `in` on a scalar first entry)
detect_file_type(d) ==
    IF ~IsDict(d) THEN "raise"
    ELSE LET lore == lorebook_check(d)
         IN  IF lore = "yes" THEN "lorebook"
             ELSE IF lore = "raise" THEN "raise"
             ELSE IF spec_check(d) THEN "character"
             ELSE IF check_char_fields(d) THEN "character"
             ELSE IF data_check(d) THEN "character"
             ELSE "unknown"

RECURSIVE search_dict(_, _)
RECURSIVE search_items(_, _, _)
\* search_dict with the loop over the nested mappings ahead of the direct
\* check: a faulty order, which the statement on the first match must tell from
\* the source's
search_dict_nested_first(d, field) ==
    LET result == search_items(d, field, 1)
    IN  IF ~IsNone(result) THEN result
        ELSE IF HasKey(d, field) THEN Item(d, field)
        ELSE None

\* search_dict(d, field) of get_field_value: the direct check, then the loop
search_dict(d, field) ==
    IF HasKey(d, field) THEN Item(d, field) ELSE search_items(d, field, 1)

\* the loop `for key, value in d.items()` of search_dict, from item n on
search_items(d, field, n) ==
    IF n > Len(d.v) THEN None
    ELSE LET key == d.v[n][1]
             value == d.v[n][2]
         IN  IF IsDict(value)
             THEN LET result == search_dict(value, field)
                  IN  IF ~IsNone(result) THEN result
                      ELSE search_items(d, field, n + 1)
             ELSE IF /\ key = "extensions"
                     /\ IsDict(value)
                     /\ HasKey(value, "depth_prompt")
                     /\ IsDict(Item(value, "depth_prompt"))
                     /\ HasKey(Item(value, "depth_prompt"), "prompt")
                     /\ field = "character_note"
             THEN Item(Item(value, "depth_prompt"), "prompt")
             ELSE search_items(d, field, n + 1)

\* get_field_value without its guard `if not self.json_data`: a faulty variant,
\* which the statement on the roots that raise must tell from the source's
get_field_value_unguarded(data, field_name) ==
    IF ~IsDict(data) THEN Raised
    ELSE LET value == search_dict(data, field_name)
         IN  IF ~IsNone(value) THEN value
             ELSE IF HasKey(data, "data") /\ IsDict(Item(data, "data"))
             THEN search_dict(Item(data, "data"), field_name)
             ELSE None

\* get_field_value(field_name) with self.json_data = data
get_field_value(data, field_name) ==
    IF ~Truthy(data) THEN None
    ELSE IF ~IsDict(data) THEN Raised
    ELSE LET value == search_dict(data, field_name)
         IN  IF ~IsNone(value) THEN value
             ELSE IF HasKey(data, "data") /\ IsDict(Item(data, "data"))
             THEN search_dict(Item(data, "data"), field_name)
             ELSE None

----------------------------------------------------------------------------
(* Formatter: the tagged runs inserted into the preview Text widget.       *)

\* the length of the '=' rules of the header
HEADER_RULE_LEN ==
    50

\* the length of the dash separators
SEPARATOR_LEN ==
    50

\* the length of the '=' rule between the cards of a multiple extraction
CARD_RULE_LEN ==
    60

\* the indentation that the source lines of the header f-string carry
HEADER_INDENT ==
    8

\* preview_text.insert(tk.END, text, tag)
Run(text, tag) ==
    [text |-> text, tag |-> tag]

\* selected_fields.get(field)
Selected(sel, field) ==
    field \in DOMAIN sel /\ sel[field]

\* the result of a formatting method: the runs it inserted, or ok = FALSE
\* when it raised
Done(runs) ==
    [ok |-> TRUE, runs |-> runs]

Failed ==
    [ok |-> FALSE, runs |-> <<>>]

\* the header run of extract_character_fields
header_run(data) ==
    LET found == get_field_value(data, "name")
        card_name == IF Truthy(found) THEN PyStr(found) ELSE S_Unnamed_Character
    IN  Run(Rep(EQ, HEADER_RULE_LEN) \o <<NL>>
            \o Rep(SP, HEADER_INDENT) \o card_name \o <<NL>>
            \o Rep(SP, HEADER_INDENT) \o Rep(EQ, HEADER_RULE_LEN) \o <<NL>>,
            "header")

\* sections of extract_character_fields
sections ==
    << <<"description", S_CHARACTER_DEFINITION>>,
       <<"personality", S_PERSONALITY>>,
       <<"prompt", S_CHARACTER_NOTE>>,
       <<"scenario", S_SCENARIO>>,
       <<"first_mes", S_FIRST_MESSAGE>>,
       <<"mes_example", S_EXAMPLE_MESSAGES>> >>

\* the three runs of one section
section_runs(title, content) ==
    << Run(<<NL>> \o title \o <<NL>>, "section_title"),
       Run(Rep(DASH, SEPARATOR_LEN) \o <<NL>>, "separator"),
       Run(PyStr(content) \o <<NL>>, "content") >>

RECURSIVE sections_loop(_, _, _)
\* the loop `for field, title in sections` of extract_character_fields, from n on
sections_loop(data, sel, n) ==
    IF n > Len(sections) THEN <<>>
    ELSE LET field == sections[n][1]
             title == sections[n][2]
             content == IF Selected(sel, field) THEN get_field_value(data, field)
                        ELSE None
         IN  (IF Selected(sel, field) /\ Truthy(content)
              THEN section_runs(title, content) ELSE <<>>)
             \o sections_loop(data, sel, n + 1)

RECURSIVE greetings_loop(_, _)
\* the loop of handle_alternate_greetings over enumerate(greetings, 1), from n on
greetings_loop(greetings, n) ==
    IF n > Len(greetings) THEN <<>>
    ELSE << Run(S_bullet_Greeting_sp \o Digits(n) \o <<NL>>, "book_entry"),
            Run(Strip(greetings[n].v) \o <<NL>>, "content") >>
         \o greetings_loop(greetings, n + 1)

\* handle_alternate_greetings()
handle_alternate_greetings(data, sel) ==
    IF ~Selected(sel, "alternate_greetings") THEN Done(<<>>)
    ELSE LET greetings == get_field_value(data, "alternate_greetings")
         IN  IF ~Truthy(greetings) \/ ~IsList(greetings) THEN Done(<<>>)
             ELSE IF \E n \in 1..Len(greetings.v) : ~IsStr(greetings.v[n])
             THEN Failed
             ELSE Done(<< Run(<<NL>> \o S_ALTERNATE_GREETINGS \o <<NL>>,
                              "section_title"),
                          Run(Rep(DASH, SEPARATOR_LEN) \o <<NL>>, "separator") >>
                       \o greetings_loop(greetings.v, 1))

RECURSIVE book_loop_comment_first(_, _)
\* book_loop with the comment of an entry ahead of its name: a faulty variant,
\* which the statement on the book entries must tell from the source's
book_loop_comment_first(entries, n) ==
    IF n > Len(entries) THEN <<>>
    ELSE LET entry == entries[n]
             title == Get(entry, "comment", Get(entry, "name", JStr(<<>>)))
             content == Get(entry, "content", JStr(<<>>))
         IN  (IF Truthy(title) /\ Truthy(content)
              THEN << Run(S_bullet_sp \o PyStr(title) \o <<NL>>, "book_entry"),
                      Run(PyStr(content) \o <<NL, NL>>, "content") >>
              ELSE <<>>)
             \o book_loop_comment_first(entries, n + 1)

RECURSIVE book_loop(_, _)
\* the loop `for entry in char_book['entries']` of handle_character_book
book_loop(entries, n) ==
    IF n > Len(entries) THEN <<>>
    ELSE LET entry == entries[n]
             title == Get(entry, "name", Get(entry, "comment", JStr(<<>>)))
             content == Get(entry, "content", JStr(<<>>))
         IN  (IF Truthy(title) /\ Truthy(content)
              THEN << Run(S_bullet_sp \o PyStr(title) \o <<NL>>, "book_entry"),
                      Run(PyStr(content) \o <<NL, NL>>, "content") >>
              ELSE <<>>)
             \o book_loop(entries, n + 1)

\* whether `for entry in entries_value: entry.get(...)` runs without raising
book_entries_iterable(x) ==
    CASE x.t = "list" -> \A n \in 1..Len(x.v) : IsDict(x.v[n])
      [] x.t = "dict" -> Len(x.v) = 0
      [] x.t = "str"  -> Len(x.v) = 0
      [] OTHER        -> FALSE

\* handle_character_book()
handle_character_book(data, sel) ==
    IF ~Selected(sel, "character_book") THEN Done(<<>>)
    ELSE LET char_book == get_field_value(data, "character_book")
             has == IF Truthy(char_book) THEN PyIn("entries", S_entries, char_book)
                    ELSE "no"
         IN  IF has = "no" THEN Done(<<>>)
             ELSE IF has = "raise" \/ ~IsDict(char_book) THEN Failed
             ELSE IF ~book_entries_iterable(Item(char_book, "entries")) THEN Failed
             ELSE Done(<< Run(<<NL>> \o S_CHARACTER_BOOK \o <<NL>>, "section_title"),
                          Run(Rep(DASH, SEPARATOR_LEN) \o <<NL>>, "separator") >>
                       \o (IF IsList(Item(char_book, "entries"))
                           THEN book_loop(Item(char_book, "entries").v, 1)
                           ELSE <<>>))

\* extract_character_fields() with self.json_data = data
extract_character_fields(data, sel) ==
    LET greetings == handle_alternate_greetings(data, sel)
        book == handle_character_book(data, sel)
    IN  IF ~greetings.ok \/ ~book.ok THEN Failed
        ELSE Done(<<header_run(data)>> \o sections_loop(data, sel, 1)
                  \o greetings.runs \o book.runs)

\* ', '.join(keys) or str(keys) of extract_lorebook_fields
key_text(keys) ==
    IF IsList(keys)
    THEN Join([n \in 1..Len(keys.v) |-> keys.v[n].v], S_comma_sp)
    ELSE PyStr(keys)

\* the runs of one entry with the keys ahead of the content: a faulty order,
\* which the statement on the order of an entry's runs must tell from the source's
lorebook_entry_runs_keys_first(entry, sel) ==
    LET label == Get(entry, "name", Get(entry, "comment", JStr(<<>>)))
        content == Get(entry, "content", JStr(<<>>))
        keys == Get(entry, "key", JList(<<>>))
    IN  (IF Selected(sel, "label") /\ Truthy(label)
         THEN << Run(PyStr(label) \o <<NL>>, "section_title"),
                 Run(Rep(DASH, SEPARATOR_LEN) \o <<NL>>, "separator") >>
         ELSE <<>>)
        \o (IF Selected(sel, "key") /\ Truthy(keys)
            THEN << Run(S_Keys_sp \o key_text(keys) \o <<NL>>, "book_entry") >>
            ELSE <<>>)
        \o (IF Selected(sel, "content") /\ Truthy(content)
            THEN << Run(PyStr(content) \o <<NL>>, "content") >>
            ELSE <<>>)

\* the runs of one entry of extract_lorebook_fields
lorebook_entry_runs(entry, sel) ==
    LET label == Get(entry, "name", Get(entry, "comment", JStr(<<>>)))
        content == Get(entry, "content", JStr(<<>>))
        keys == Get(entry, "key", JList(<<>>))
    IN  (IF Selected(sel, "label") /\ Truthy(label)
         THEN << Run(PyStr(label) \o <<NL>>, "section_title"),
                 Run(Rep(DASH, SEPARATOR_LEN) \o <<NL>>, "separator") >>
         ELSE <<>>)
        \o (IF Selected(sel, "content") /\ Truthy(content)
            THEN << Run(PyStr(content) \o <<NL>>, "content") >>
            ELSE <<>>)
        \o (IF Selected(sel, "key") /\ Truthy(keys)
            THEN << Run(S_Keys_sp \o key_text(keys) \o <<NL>>, "book_entry") >>
            ELSE <<>>)

\* whether the body of the loop of extract_lorebook_fields raises on this entry:
\* entry.get on a value that is no dict, ', '.join on keys that are not all str
lorebook_entry_raises(entry, sel) ==
    LET any == Selected(sel, "label") \/ Selected(sel, "content")
               \/ Selected(sel, "key")
    IN  IF ~IsDict(entry) THEN any
        ELSE LET keys == Get(entry, "key", JList(<<>>))
             IN  /\ Selected(sel, "key")
                 /\ IsList(keys)
                 /\ \E n \in 1..Len(keys.v) : ~IsStr(keys.v[n])

RECURSIVE lorebook_loop(_, _, _, _)
\* the loop `for entry_id, entry in self.json_data['entries'].items()`, from n on
lorebook_loop(items, sel, n, first_entry) ==
    IF n > Len(items) THEN <<>>
    ELSE (IF ~first_entry THEN <<Run(<<NL, NL>>, "")>> ELSE <<>>)
         \o lorebook_entry_runs(items[n][2], sel)
         \o lorebook_loop(items, sel, n + 1, FALSE)

\* extract_lorebook_fields() with self.json_data = data, a dict holding 'entries'
extract_lorebook_fields(data, sel) ==
    LET entries == Item(data, "entries")
    IN  IF ~IsDict(entries) THEN Failed
        ELSE IF \E n \in 1..Len(entries.v) :
                    lorebook_entry_raises(entries.v[n][2], sel)
        THEN Failed
        ELSE Done(lorebook_loop(entries.v, sel, 1, TRUE))

\* the separator run between two cards of extract_fields
card_separator_run ==
    Run(<<NL, NL>> \o Rep(EQ, CARD_RULE_LEN) \o <<NL, NL>>, "separator")

RECURSIVE multiple_loop_rule_first(_, _, _)
\* the loop of extract_fields with the rule ahead of every card, the first
\* included: a faulty loop, which the statement on the rules between the cards
\* must tell from the source's
multiple_loop_rule_first(cards, sel, n) ==
    IF n > Len(cards) THEN Done(<<>>)
    ELSE LET card == extract_character_fields(cards[n], sel)
             rest == multiple_loop_rule_first(cards, sel, n + 1)
         IN  IF ~card.ok \/ ~rest.ok THEN Failed
             ELSE Done(<<card_separator_run>> \o card.runs \o rest.runs)

RECURSIVE multiple_loop(_, _, _)
\* the loop `for i, card_data in enumerate(self.json_data)` of extract_fields,
\* from card n on (n is 1-based: the source's i is n - 1)
multiple_loop(cards, sel, n) ==
    IF n > Len(cards) THEN Done(<<>>)
    ELSE LET card == extract_character_fields(cards[n], sel)
             rest == multiple_loop(cards, sel, n + 1)
         IN  IF ~card.ok \/ ~rest.ok THEN Failed
             ELSE Done((IF n - 1 > 0 THEN <<card_separator_run>> ELSE <<>>)
                       \o card.runs \o rest.runs)

\* the text the Text widget holds: the inserted runs, one after the other
WidgetText(runs) ==
    Concat([n \in 1..Len(runs) |-> runs[n].text])

\* preview_text.get(1.0, tk.END): the widget's text and the newline tk ends it with
widget_get(runs) ==
    WidgetText(runs) \o <<NL>>

----------------------------------------------------------------------------
(* create_pdf: the text cleaning, the mode detection and the line scanner. *)

RECURSIVE clean_chars_latin1(_, _)
\* clean_chars with the filter ord(c) < 256: a faulty variant, which the
\* statement on the cleaned text must tell from the source's
clean_chars_latin1(text, n) ==
    IF n > Len(text) THEN <<>>
    ELSE (IF text[n] \in {BLACK_SQUARE, WHITE_SQUARE} THEN <<>>
          ELSE IF text[n] = BULLET THEN S_arrow
          ELSE IF text[n] < 256 THEN <<text[n]>>
          ELSE <<>>)
         \o clean_chars_latin1(text, n + 1)

RECURSIVE clean_chars(_, _)
\* the replace calls and the filter of clean_text, from character n on
clean_chars(text, n) ==
    IF n > Len(text) THEN <<>>
    ELSE (IF text[n] \in {BLACK_SQUARE, WHITE_SQUARE} THEN <<>>
          ELSE IF text[n] = BULLET THEN S_arrow
          ELSE IF text[n] < 128 THEN <<text[n]>>
          ELSE <<>>)
         \o clean_chars(text, n + 1)

\* clean_text(text)
clean_text(text) ==
    Strip(clean_chars(text, 1))

\* MAIN_SECTIONS
MAIN_SECTIONS ==
    {S_CHARACTER_DEFINITION, S_PERSONALITY, S_CHARACTER_NOTE, S_SCENARIO,
     S_FIRST_MESSAGE, S_EXAMPLE_MESSAGES, S_ALTERNATE_GREETINGS, S_CHARACTER_BOOK}

\* how many of the first lines the mode detection reads
DETECT_LINES ==
    10

\* the height of the spacer before a lorebook title and before the first name
SPACER_BEFORE ==
    20

\* the height of the spacer after a name block
SPACER_AFTER_NAME ==
    12

\* the length of the rules of a name block
NAME_RULE_LEN ==
    50

\* Paragraph(text, styles[style])
Paragraph(text, style) ==
    [kind |-> style, text |-> text, height |-> 0]

\* create_separator()
create_separator ==
    [kind |-> "HRFlowable", text |-> <<>>, height |-> 0]

\* Spacer(1, height)
Spacer(height) ==
    [kind |-> "Spacer", text |-> <<>>, height |-> height]

\* PageBreak()
PageBreak ==
    [kind |-> "PageBreak", text |-> <<>>, height |-> 0]

\* the mode detection over the first lines that are not blank: a faulty
\* variant, which the statement on the lines read must tell from the source's
detect_lorebook_non_empty(L) ==
    LET F == SelectSeq(L, LAMBDA line : Strip(line) # <<>>)
    IN  \E n \in 1..Len(F) :
            /\ n <= DETECT_LINES
            /\ \/ Contains(F[n], S_Keys)
               \/ /\ StartsWith(Strip(F[n]), <<BULLET>>)
                  /\ ~Contains(F[n], S_CHARACTER)

\* the mode detection over lines[:10]
detect_lorebook(L) ==
    \E n \in 1..Len(L) :
        /\ n <= DETECT_LINES
        /\ \/ Contains(L[n], S_Keys)
           \/ /\ StartsWith(Strip(L[n]), <<BULLET>>)
              /\ ~Contains(L[n], S_CHARACTER)

\* a flush that drops the buffered lines: a faulty variant, which the
\* statement on the text kept must tell from the source's
flush_dropping(buf, st) ==
    st

\* `if buffer: story.append(Paragraph('<br/>'.join(buffer), styles['Content']))`
flush(buf, st) ==
    IF Len(buf) > 0 THEN Append(st, Paragraph(Join(buf, S_br), "Content"))
    ELSE st

\* the flush of the lorebook branch, which drops a paragraph of blanks
flush_lorebook(buf, st) ==
    IF Len(buf) > 0 /\ Strip(Join(buf, S_br)) # <<>>
    THEN Append(st, Paragraph(Join(buf, S_br), "Content"))
    ELSE st

\* the name pattern without the test of the closing rule: a faulty variant,
\* which the statement on the name blocks must tell from the source's
name_pattern_no_closing_rule(L, n) ==
    /\ n + 2 <= Len(L)
    /\ Strip(L[n + 1]) # <<>>
    /\ ~AllChar(Strip(L[n + 1]), EQ)

\* the name pattern at line n: text that is no rule, then a rule
name_pattern(L, n) ==
    /\ n + 1 <= Len(L)
    /\ Strip(L[n + 1]) # <<>>
    /\ ~AllChar(Strip(L[n + 1]), EQ)
    /\ n + 2 <= Len(L)
    /\ Strip(L[n + 2]) # <<>>
    /\ AllChar(Strip(L[n + 2]), EQ)

\* the bullet test of the character branch
is_bullet_line(clean_line) ==
    \/ StartsWith(clean_line, S_Keys)
    \/ StartsWith(clean_line, S_arrow)
    \/ StartsWith(clean_line, S_bullet_sp)
    \/ StartsWith(clean_line, S_Greeting)

\* the lorebook branch with a last line taken for a title, as if a blank line
\* followed it: a faulty variant, which the statement on the titles must tell
\* from the source's
lorebook_branch_last_is_title(s, clean_line) ==
    IF ~StartsWith(clean_line, S_Keys)
    THEN LET is_title ==
                 \/ s.i + 1 > Len(s.lines)
                 \/ AllChar(Strip(s.lines[s.i + 1]), DASH)
         IN  IF is_title
             THEN [s EXCEPT !.story = flush_lorebook(s.buffer, s.story)
                                      \o << Spacer(SPACER_BEFORE),
                                            Paragraph(clean_line, "LorebookTitle"),
                                            create_separator >>,
                            !.buffer = <<>>,
                            !.i = s.i + 2]
             ELSE [s EXCEPT !.buffer = Append(s.buffer, clean_line),
                            !.i = s.i + 1]
    ELSE [s EXCEPT !.story = Append(flush_lorebook(s.buffer, s.story),
                                    Paragraph(clean_line, "BookEntry")),
                   !.buffer = <<>>,
                   !.i = s.i + 1]

\* the lorebook branch of the loop body, on a cleaned non-empty line
lorebook_branch(s, clean_line) ==
    IF ~StartsWith(clean_line, S_Keys)
    THEN LET is_title ==
                 /\ s.i + 1 <= Len(s.lines)
                 /\ \/ AllChar(Strip(s.lines[s.i + 1]), DASH)
                    \/ Strip(s.lines[s.i + 1]) = <<>>
         IN  IF is_title
             THEN [s EXCEPT !.story = flush_lorebook(s.buffer, s.story)
                                      \o << Spacer(SPACER_BEFORE),
                                            Paragraph(clean_line, "LorebookTitle"),
                                            create_separator >>,
                            !.buffer = <<>>,
                            !.i = s.i + 2]
             ELSE [s EXCEPT !.buffer = Append(s.buffer, clean_line),
                            !.i = s.i + 1]
    ELSE [s EXCEPT !.story = Append(flush_lorebook(s.buffer, s.story),
                                    Paragraph(clean_line, "BookEntry")),
                   !.buffer = <<>>,
                   !.i = s.i + 1]

\* the index after a rule line that starts no name block: the source steps over
\* the rule only when the next line is again made of '=' (or blank)
after_rule(L, n) ==
    IF n + 1 <= Len(L) /\ AllChar(Strip(L[n + 1]), EQ) THEN n + 1 ELSE n

\* the branch of the loop body for a line made of '='
rule_branch(s) ==
    LET flushed == flush(s.buffer, s.story)
    IN  IF name_pattern(s.lines, s.i)
        THEN [s EXCEPT !.story = flushed
                                 \o << IF s.found_char_name THEN PageBreak
                                       ELSE Spacer(SPACER_BEFORE),
                                       Paragraph(Rep(EQ, NAME_RULE_LEN),
                                                 "CharacterSeparator"),
                                       Paragraph(clean_text(Strip(s.lines[s.i + 1])),
                                                 "CharacterName"),
                                       Paragraph(Rep(EQ, NAME_RULE_LEN),
                                                 "CharacterSeparator"),
                                       Spacer(SPACER_AFTER_NAME) >>,
                       !.buffer = <<>>,
                       !.i = s.i + 3,
                       !.found_char_name = TRUE]
        ELSE [s EXCEPT !.story = flushed,
                       !.buffer = <<>>,
                       !.i = after_rule(s.lines, s.i)]

\* the branch of the loop body for a main section title
section_branch(s, clean_line) ==
    [s EXCEPT !.story = Append(flush(s.buffer, s.story),
                               Paragraph(clean_line, "SectionTitle"))
                        \o (IF clean_line # S_EXAMPLE_MESSAGES
                            THEN <<create_separator>> ELSE <<>>),
              !.buffer = <<>>,
              !.current_section = clean_line,
              !.in_example_messages = (clean_line = S_EXAMPLE_MESSAGES),
              !.i = s.i + 1]

\* the character branch of the loop body, on a cleaned non-empty line
character_branch(s, line, clean_line) ==
    IF Strip(line) # <<>> /\ AllChar(Strip(line), EQ) THEN rule_branch(s)
    ELSE IF clean_line \in MAIN_SECTIONS THEN section_branch(s, clean_line)
    ELSE IF is_bullet_line(clean_line)
    THEN [s EXCEPT !.story = Append(flush(s.buffer, s.story),
                                    Paragraph(clean_line, "BookEntry")),
                   !.buffer = <<>>,
                   !.i = s.i + 1]
    ELSE [s EXCEPT !.buffer = Append(s.buffer, clean_line),
                   !.i = s.i + 1]

\* one iteration of `while i < len(lines)`, on the scanner's variables s
loop_body(s) ==
    LET line == RStrip(s.lines[s.i])
        clean_line == clean_text(line)
    IN  IF line = <<>> THEN [s EXCEPT !.i = s.i + 1]
        ELSE IF clean_line = <<>> THEN [s EXCEPT !.i = s.i + 1]
        ELSE IF s.is_lorebook THEN lorebook_branch(s, clean_line)
        ELSE character_branch(s, line, clean_line)

\* the scanner's variables before the loop, for formatted_text and the output stem
scan_start(formatted_text, stem) ==
    [lines |-> Split(formatted_text, NL),
     i |-> 1,
     buffer |-> <<>>,
     story |-> <<Paragraph(stem, "DocumentTitle"), create_separator>>,
     found_char_name |-> FALSE,
     is_lorebook |-> detect_lorebook(Split(formatted_text, NL)),
     current_section |-> None,
     in_example_messages |-> FALSE]

\* the scanner's variables as one record
scanner ==
    [lines |-> lines, i |-> i, buffer |-> buffer, story |-> story,
     found_char_name |-> found_char_name, is_lorebook |-> is_lorebook,
     current_section |-> current_section,
     in_example_messages |-> in_example_messages]

----------------------------------------------------------------------------
(* The files on disk: the stem of the name, whether json.load reads the     *)
(* file, and what it yields.                                               *)

\* ava.json: {"name": "Ava", "description": "A pilot.", "personality": "Brave."}
FILE_ava ==
    [stem |-> <<97,118,97>>, status |-> "ok",
     json |-> JDict(<<<<"name", JStr(<<65,118,97>>)>>,
                   <<"description", JStr(<<65,32,112,105,108,111,116,46>>)>>,
                   <<"personality", JStr(<<66,114,97,118,101,46>>)>>>>)]

\* bob.json: {"spec": "chara_card_v3", "data": {"name": "bob", "description": "d", "extensions": {"depth_prompt": {"prompt": "N"}}, "alternate_greetings": [" Hi "], "character_book": {"entries": [{"name": "T", "content": "c"}, {"comment": "U"}]}}}
FILE_bob ==
    [stem |-> <<98,111,98>>, status |-> "ok",
     json |-> JDict(<<<<"spec", JStr(<<99,104,97,114,97,95,99,97,114,100,95,118,51>>)>>,
                   <<"data", JDict(<<<<"name", JStr(<<98,111,98>>)>>,
                         <<"description", JStr(<<100>>)>>,
                         <<"extensions", JDict(<<<<"depth_prompt", JDict(<<<<"prompt", JStr(<<78>>)>>>>)>>>>)>>,
                         <<"alternate_greetings", JList(<<JStr(<<32,72,105,32>>)>>)>>,
                         <<"character_book", JDict(<<<<"entries", JList(<<JDict(<<<<"name", JStr(<<84>>)>>,
                                           <<"content", JStr(<<99>>)>>>>),
                                     JDict(<<<<"comment", JStr(<<85>>)>>>>)>>)>>>>)>>>>)>>>>)]

\* cy.json: {"name": "Cy", "alternate_greetings": ["Hi"]}
FILE_cy ==
    [stem |-> <<99,121>>, status |-> "ok",
     json |-> JDict(<<<<"name", JStr(<<67,121>>)>>,
                   <<"alternate_greetings", JList(<<JStr(<<72,105>>)>>)>>>>)]

\* zed.json: {"description": "d", "character_book": {"name": "Alpha", "entries": []}}
FILE_zed ==
    [stem |-> <<122,101,100>>, status |-> "ok",
     json |-> JDict(<<<<"description", JStr(<<100>>)>>,
                   <<"character_book", JDict(<<<<"name", JStr(<<65,108,112,104,97>>)>>,
                         <<"entries", JList(<<>>)>>>>)>>>>)]

\* eq.json: {"name": "Eq", "description": "=\nx"}
FILE_eq ==
    [stem |-> <<101,113>>, status |-> "ok",
     json |-> JDict(<<<<"name", JStr(<<69,113>>)>>,
                   <<"description", JStr(<<61,10,120>>)>>>>)]

\* anon.json: {"first_mes": "Hi"}
FILE_anon ==
    [stem |-> <<97,110,111,110>>, status |-> "ok",
     json |-> JDict(<<<<"first_mes", JStr(<<72,105>>)>>>>)]

\* lore.json: {"entries": {"0": {"comment": "Rule1", "content": "Always be kind.", "key": ["kind", "nice"]}, "1": {"name": "", "comment": "c2", "content": "x", "key": "solo"}}}
FILE_lore ==
    [stem |-> <<108,111,114,101>>, status |-> "ok",
     json |-> JDict(<<<<"entries", JDict(<<<<"0", JDict(<<<<"comment", JStr(<<82,117,108,101,49>>)>>,
                               <<"content", JStr(<<65,108,119,97,121,115,32,98,101,32,107,105,110,100,46>>)>>,
                               <<"key", JList(<<JStr(<<107,105,110,100>>),
                                     JStr(<<110,105,99,101>>)>>)>>>>)>>,
                         <<"1", JDict(<<<<"name", JStr(<<>>)>>,
                               <<"comment", JStr(<<99,50>>)>>,
                               <<"content", JStr(<<120>>)>>,
                               <<"key", JStr(<<115,111,108,111>>)>>>>)>>>>)>>>>)]

\* misc.json: {"foo": 1}
FILE_misc ==
    [stem |-> <<109,105,115,99>>, status |-> "ok",
     json |-> JDict(<<<<"foo", JNum(1)>>>>)]

\* bad.json: (not JSON)
FILE_bad ==
    [stem |-> <<98,97,100>>, status |-> "invalid_json",
     json |-> None]

\* gone.json: a path that open() cannot read
FILE_gone ==
    [stem |-> <<103,111,110,101>>, status |-> "unreadable",
     json |-> None]

\* num.json: {"name": 7, "description": "d", "alternate_greetings": [7]}
FILE_num ==
    [stem |-> <<110,117,109>>, status |-> "ok",
     json |-> JDict(<<<<"name", JNum(7)>>,
                   <<"description", JStr(<<100>>)>>,
                   <<"alternate_greetings", JList(<<JNum(7)>>)>>>>)]

\* odd.json: {"name": "Odd", "alternate_greetings": [7]}
FILE_odd ==
    [stem |-> <<111,100,100>>, status |-> "ok",
     json |-> JDict(<<<<"name", JStr(<<79,100,100>>)>>,
                   <<"alternate_greetings", JList(<<JNum(7)>>)>>>>)]

\* the files the file pickers offer
Files ==
    <<FILE_ava, FILE_bob, FILE_cy, FILE_zed, FILE_eq, FILE_anon, FILE_lore, FILE_misc, FILE_bad,
      FILE_gone, FILE_num, FILE_odd>>

----------------------------------------------------------------------------
(* The session: the files, the dialogs and the handlers of the window.     *)

\* how many files one multiple import may select
MaxFiles ==
    2

\* self.file_type = None
NoType ==
    "None"

\* self.selected_fields = None
NoFields ==
    None

\* selected_fields is a dict of a field dialog, not None
HasFields(sel) ==
    "t" \notin DOMAIN sel

\* field_options of FieldSelectorDialog, in order: each field and its label
\* ('Character Definition', 'Character Note', 'Personality', 'Example Messages',
\* 'Scenario', 'First Message', 'Character Book Entries', 'Alternate Greetings')
char_field_options ==
    << <<"description", <<67,104,97,114,97,99,116,101,114,32,68,101,102,105,110,105,116,105,111,110>>>>,
       <<"prompt", <<67,104,97,114,97,99,116,101,114,32,78,111,116,101>>>>,
       <<"personality", <<80,101,114,115,111,110,97,108,105,116,121>>>>,
       <<"mes_example", <<69,120,97,109,112,108,101,32,77,101,115,115,97,103,101,115>>>>,
       <<"scenario", <<83,99,101,110,97,114,105,111>>>>,
       <<"first_mes", <<70,105,114,115,116,32,77,101,115,115,97,103,101>>>>,
       <<"character_book",
         <<67,104,97,114,97,99,116,101,114,32,66,111,111,107,32,69,110,116,114,105,101,115>>>>,
       <<"alternate_greetings",
         <<65,108,116,101,114,110,97,116,101,32,71,114,101,101,116,105,110,103,115>>>> >>

\* field_options of LorebookFieldSelectorDialog, in order: each field and its
\* label ('Labels', 'Content', 'Keys')
lorebook_field_options ==
    << <<"label", <<76,97,98,101,108,115>>>>,
       <<"content", <<67,111,110,116,101,110,116>>>>,
       <<"key", <<75,101,121,115>>>> >>

CharFields ==
    {char_field_options[n][1] : n \in 1..Len(char_field_options)}

LorebookFields ==
    {lorebook_field_options[n][1] : n \in 1..Len(lorebook_field_options)}

\* what FieldSelectorDialog can return on OK: 'name' is always True; the model
\* takes every box checked, and every choice with one box unchecked
CharSelections ==
    {[f \in CharFields \cup {"name"} |-> f # off] : off \in CharFields \cup {"none"}}

\* what LorebookFieldSelectorDialog can return on OK
LorebookSelections ==
    [LorebookFields -> BOOLEAN]

\* what the field dialog of a file type returns: None (Cancel) or a selection
DialogOutcomes(ft) ==
    {NoFields} \cup (IF ft = "lorebook" THEN LorebookSelections ELSE CharSelections)

\* the paths askopenfilenames can return: no file (cancelled), or up to MaxFiles
\* distinct files in any order
FilePaths ==
    {<<>>} \cup
    UNION {{p \in [1..n -> 1..Len(Files)] : \A a, b \in 1..n : a # b => p[a] # p[b]}
           : n \in 1..MaxFiles}

\* the extract button: pack/pack_forget and its state option
Button(packed, state) ==
    [packed |-> packed, state |-> state]

\* messagebox.showerror / showwarning: the box, its title and what it names
Message(box, title, detail) ==
    [box |-> box, title |-> title, detail |-> detail]

\* reset_interface() without `self.extracted_text = ""`: a faulty variant, which
\* the statements on the text a reset leaves must tell from the source's
reset_interface_keeping_text(btn) ==
    [json_data |-> None, selected_fields |-> NoFields, file_type |-> NoType,
     extracted_text |-> extracted_text, preview_text |-> <<>>,
     extract_btn |-> [packed |-> FALSE, state |-> btn.state], card_stems |-> <<>>]

\* the session's variables after reset_interface() (the button keeps its state)
reset_interface(btn) ==
    [json_data |-> None, selected_fields |-> NoFields, file_type |-> NoType,
     extracted_text |-> <<>>, preview_text |-> <<>>,
     extract_btn |-> Button(FALSE, btn.state), card_stems |-> <<>>]

RECURSIVE summary_lines(_, _, _)
\* the labels of the checked fields for update_preview_with_selected_fields,
\* in the order of the dialog
summary_lines(options, sel, n) ==
    IF n > Len(options) THEN <<>>
    ELSE (IF sel[options[n][1]] THEN <<S_dot_sp \o options[n][2]>> ELSE <<>>)
         \o summary_lines(options, sel, n + 1)

\* the run update_preview_with_selected_fields(field_options) leaves in the widget
selection_preview(options, sel) ==
    <<Run(S_Fields_selected \o Join(summary_lines(options, sel, 1), <<NL>>), "")>>

\* handle_file_import() calling enable_extract_button() even when the field
\* dialog was cancelled: a faulty variant, which the statement on the Extract
\* Fields button must tell from the source's
handle_file_import_enabling(ss, dlg) ==
    IF ss.file_type \notin {"character", "lorebook", "character_multiple"}
    THEN reset_interface(ss.extract_btn)
    ELSE IF ~HasFields(dlg) THEN [ss EXCEPT !.extract_btn = Button(TRUE, "normal")]
    ELSE [ss EXCEPT !.selected_fields = dlg,
                    !.extract_btn = Button(TRUE, "normal")]

\* handle_file_import() once self.json_data and self.file_type are set; ss holds
\* the session's variables, dlg is what the field dialog returned
handle_file_import(ss, dlg) ==
    IF ss.file_type \notin {"character", "lorebook", "character_multiple"}
    THEN reset_interface(ss.extract_btn)
    ELSE IF ~HasFields(dlg) THEN ss
    ELSE [ss EXCEPT !.selected_fields = dlg,
                    !.preview_text =
                        selection_preview(IF ss.file_type = "lorebook"
                                          THEN lorebook_field_options
                                          ELSE char_field_options, dlg),
                    !.extract_btn = Button(TRUE, "normal")]

\* the single-file branch without its reset_interface() on a file of the wrong
\* type: a faulty variant, which the statement on failures must tell from the
\* source's
import_single_no_reset(import_type, f, clean) ==
    IF f.status # "ok" \/ detect_file_type(f.json) = "raise" THEN clean
    ELSE [clean EXCEPT !.json_data = f.json,
                       !.file_type = detect_file_type(f.json)]

\* the single-file branch of import_json(import_type), from the file picked
\* to the call of handle_file_import(): f is the file, clean the session that
\* reset_interface() left
import_single(import_type, f, clean) ==
    LET ft == detect_file_type(f.json)
    IN  IF f.status # "ok" THEN clean
        ELSE IF ft = "raise" THEN clean
        ELSE IF import_type = "lorebook" /\ ft # "lorebook" THEN clean
        ELSE IF import_type = "card" /\ ft # "character" THEN clean
        ELSE [clean EXCEPT !.json_data = f.json, !.file_type = ft]

\* a card of valid_cards: (name, char_data), and the stem of its file
normalise_card(f) ==
    LET char_data == IF HasKey(f.json, "data") /\ IsDict(Item(f.json, "data"))
                     THEN Item(f.json, "data") ELSE f.json
        name == Get(char_data, "name", None)
    IN  [name |-> IF Truthy(name) THEN name ELSE JStr(f.stem),
         data |-> char_data,
         stem |-> f.stem]

\* whether the loop of import_json keeps the file as a valid card
is_valid_card(f) ==
    f.status = "ok" /\ detect_file_type(f.json) = "character"

RECURSIVE valid_cards(_)
\* valid_cards after the loop over file_paths
valid_cards(files) ==
    IF Len(files) = 0 THEN <<>>
    ELSE (IF is_valid_card(files[1]) THEN <<normalise_card(files[1])>> ELSE <<>>)
         \o valid_cards(Tail(files))

RECURSIVE invalid_files(_)
\* invalid_files after the loop over file_paths: the file's name and the reason
invalid_files(files) ==
    IF Len(files) = 0 THEN <<>>
    ELSE (IF is_valid_card(files[1]) THEN <<>>
          ELSE << [name |-> files[1].stem \o S_json_ext,
                   reason |-> IF files[1].status = "invalid_json"
                              THEN "Invalid JSON format"
                              ELSE IF files[1].status # "ok" \/
                                      detect_file_type(files[1].json) = "raise"
                              THEN "Error"
                              ELSE "Not a character card"] >>)
         \o invalid_files(Tail(files))

\* the key of the sort: x[0].lower()
sort_key(card) ==
    Lower(card.name.v)

RECURSIVE insert_sorted(_, _)
\* card put into the sorted list after every card whose key is not greater
insert_sorted(sorted, card) ==
    IF Len(sorted) = 0 THEN <<card>>
    ELSE IF StrLeq(sort_key(sorted[1]), sort_key(card))
    THEN <<sorted[1]>> \o insert_sorted(Tail(sorted), card)
    ELSE <<card>> \o sorted

RECURSIVE sort_cards(_)
\* valid_cards.sort(key=lambda x: x[0].lower()): a stable sort
sort_cards(cards) ==
    IF Len(cards) = 0 THEN <<>>
    ELSE insert_sorted(sort_cards(SubSeq(cards, 1, Len(cards) - 1)),
                       cards[Len(cards)])

\* the multiple branch of import_json, from the files picked to the call of
\* handle_file_import(): files are the files in the order of file_paths, clean
\* the session that reset_interface() left
import_multiple(files, clean) ==
    LET cards == valid_cards(files)
    IN  IF Len(cards) = 0 THEN clean
        ELSE IF \E n \in 1..Len(cards) : ~IsStr(cards[n].name) THEN clean
        ELSE LET sorted == sort_cards(cards)
             IN  [clean EXCEPT
                     !.json_data = JList([n \in 1..Len(sorted) |-> sorted[n].data]),
                     !.file_type = "character_multiple",
                     !.card_stems = [n \in 1..Len(sorted) |-> sorted[n].stem]]

\* the messages import_json shows for the multiple branch
import_multiple_messages(files) ==
    LET cards == valid_cards(files)
        bad == invalid_files(files)
    IN  (IF Len(bad) > 0
         THEN <<Message("showwarning", "Import Warning", bad)>> ELSE <<>>)
        \o (IF Len(cards) > 0 /\ \E n \in 1..Len(cards) : ~IsStr(cards[n].name)
            THEN <<Message("showerror", "Error", <<>>)>> ELSE <<>>)

\* the messages import_json shows for the single-file branch
import_single_messages(import_type, f) ==
    IF f.status # "ok" THEN <<Message("showerror", "Error", <<>>)>>
    ELSE IF detect_file_type(f.json) = "raise"
    THEN <<Message("showerror", "Error", <<>>)>>
    ELSE IF \/ import_type = "lorebook" /\ detect_file_type(f.json) # "lorebook"
            \/ import_type = "card" /\ detect_file_type(f.json) # "character"
    THEN <<Message("showerror", "Error", <<>>)>>
    ELSE <<>>

----------------------------------------------------------------------------
(* get_plain_text.                                                         *)

\* s.isupper(), on the ASCII letters
IsUpper(s) ==
    /\ \E k \in 1..Len(s) : s[k] \in 65..90
    /\ \A k \in 1..Len(s) : s[k] \notin 97..122

RECURSIVE plain_loop_keep_bullet(_, _, _)
\* plain_loop without the removal of the bullet: a faulty variant, which the
\* statement on the plain text must tell from the source's
plain_loop_keep_bullet(L, n, skip_next) ==
    IF n > Len(L) THEN <<>>
    ELSE IF AllChar(Strip(L[n]), EQ) \/ AllChar(Strip(L[n]), DASH)
    THEN plain_loop_keep_bullet(L, n + 1, skip_next)
    ELSE <<Strip(L[n])>> \o plain_loop_keep_bullet(L, n + 1, skip_next)

RECURSIVE plain_loop(_, _, _)
\* plain_lines after the loop `for line in lines` of get_plain_text, from line n on
plain_loop(L, n, skip_next) ==
    IF n > Len(L) THEN <<>>
    ELSE LET line == L[n]
             stripped == Strip(line)
             unbulleted == IF StartsWith(line, <<BULLET>>)
                           THEN Strip(Tail(line)) ELSE line
         IN  IF AllChar(stripped, EQ) \/ AllChar(stripped, DASH)
             THEN plain_loop(L, n + 1, skip_next)
             ELSE IF skip_next /\ stripped = <<>>
             THEN plain_loop(L, n + 1, FALSE)
             ELSE IF stripped # <<>>
             THEN <<Strip(unbulleted)>>
                  \o plain_loop(L, n + 1,
                                skip_next \/ (IsUpper(unbulleted) /\ Len(unbulleted) > 3))
             ELSE plain_loop(L, n + 1, skip_next)

\* get_plain_text(formatted_text)
get_plain_text(formatted_text) ==
    Join(plain_loop(Split(formatted_text, NL), 1, FALSE), <<NL, NL>>)

----------------------------------------------------------------------------
(* State, initial state and actions.                                       *)

\* the session's variables as one record
session ==
    [json_data |-> json_data, selected_fields |-> selected_fields,
     file_type |-> file_type, extracted_text |-> extracted_text,
     preview_text |-> preview_text, extract_btn |-> extract_btn,
     card_stems |-> card_stems]

\* the session's variables take the values of the record ss
SetSession(ss) ==
    /\ json_data' = ss.json_data
    /\ selected_fields' = ss.selected_fields
    /\ file_type' = ss.file_type
    /\ extracted_text' = ss.extracted_text
    /\ preview_text' = ss.preview_text
    /\ extract_btn' = ss.extract_btn
    /\ card_stems' = ss.card_stems

\* the scanner's variables take the values of the record s
SetScanner(s) ==
    /\ lines' = s.lines
    /\ i' = s.i
    /\ buffer' = s.buffer
    /\ story' = s.story
    /\ found_char_name' = s.found_char_name
    /\ is_lorebook' = s.is_lorebook
    /\ current_section' = s.current_section
    /\ in_example_messages' = s.in_example_messages

\* no create_pdf call is active: its locals do not exist
NoScanner ==
    [lines |-> <<>>, i |-> 1, buffer |-> <<>>, story |-> <<>>,
     found_char_name |-> FALSE, is_lorebook |-> FALSE,
     current_section |-> None, in_example_messages |-> FALSE]

PdfIdle ==
    /\ pdf_pc' = "idle"
    /\ SetScanner(NoScanner)
    /\ raised' = <<>>

NoCall ==
    [fn |-> "none", json_data |-> None, field_name |-> "none",
     selected_fields |-> NoFields]

NoReturn ==
    [state |-> "none", value |-> None]

\* ModernJSONExtractorGUI.__init__
InitSession ==
    /\ json_data = None
    /\ extracted_text = <<>>
    /\ selected_fields = NoFields
    /\ file_type = NoType
    /\ preview_text = <<>>
    /\ extract_btn = Button(FALSE, "normal")
    /\ ui = [at |-> "idle", import_type |-> "none"]
    /\ card_stems = <<>>
    /\ messages = <<>>
    /\ written = <<>>

InitPdf ==
    /\ pdf_pc = "idle"
    /\ lines = <<>>
    /\ i = 1
    /\ buffer = <<>>
    /\ story = <<>>
    /\ found_char_name = FALSE
    /\ is_lorebook = FALSE
    /\ current_section = None
    /\ in_example_messages = FALSE
    /\ raised = <<>>

Init ==
    /\ InitSession
    /\ InitPdf
    /\ call = NoCall
    /\ ret = NoReturn

\* the window handles one event at a time: no handler starts while import_json
\* waits in a dialog or create_pdf scans
WindowIdle ==
    ui.at = "idle" /\ pdf_pc # "scan"

Idle ==
    [at |-> "idle", import_type |-> "none"]

\* a handler other than import_json runs to its end
StaysIdle ==
    ui' = Idle

\* import_json(import_type) up to its file picker: reset_interface()
ImportBegin(import_type) ==
    /\ WindowIdle
    /\ SetSession(reset_interface(extract_btn))
    /\ ui' = [at |-> "file_picker", import_type |-> import_type]
    /\ messages' = <<>>
    /\ written' = <<>>
    /\ PdfIdle
    /\ UNCHANGED call_vars

ImportLorebook ==
    ImportBegin("lorebook")

ImportCard ==
    ImportBegin("card")

ImportMultiple ==
    ImportBegin("multiple")

\* import_json goes on to handle_file_import() and its field dialog iff the
\* session holds a document
AfterPicker(ss) ==
    IF ss.file_type = NoType THEN Idle
    ELSE [at |-> "field_dialog", import_type |-> ui.import_type]

\* askopenfilename returns: import_json('card' or 'lorebook') from the file
\* picked to the field dialog of handle_file_import()
PickFile ==
    /\ ui.at = "file_picker"
    /\ ui.import_type \in {"card", "lorebook"}
    /\ \E choice \in 0..Len(Files) :
          IF choice = 0
          THEN /\ UNCHANGED session_vars
               /\ ui' = Idle
               /\ messages' = <<>>
          ELSE LET ss == import_single(ui.import_type, Files[choice], session)
               IN  /\ SetSession(ss)
                   /\ ui' = AfterPicker(ss)
                   /\ messages' = import_single_messages(ui.import_type,
                                                         Files[choice])
    /\ UNCHANGED <<pdf_vars, written, call_vars>>

\* askopenfilenames returns: import_json('multiple') from the files picked to
\* the field dialog of handle_file_import()
PickFiles ==
    /\ ui.at = "file_picker"
    /\ ui.import_type = "multiple"
    /\ \E paths \in FilePaths :
          IF Len(paths) = 0
          THEN /\ UNCHANGED session_vars
               /\ ui' = Idle
               /\ messages' = <<>>
          ELSE LET files == [n \in 1..Len(paths) |-> Files[paths[n]]]
                   ss == import_multiple(files, session)
               IN  /\ SetSession(ss)
                   /\ ui' = AfterPicker(ss)
                   /\ messages' = import_multiple_messages(files)
    /\ UNCHANGED <<pdf_vars, written, call_vars>>

\* the field dialog closes: the rest of handle_file_import() and of import_json
FieldDialog ==
    /\ ui.at = "field_dialog"
    /\ \E dlg \in DialogOutcomes(file_type) :
          SetSession(handle_file_import(session, dlg))
    /\ ui' = Idle
    /\ UNCHANGED <<messages, pdf_vars, written, call_vars>>

\* what extract_fields formats for the session ss: the runs, or ok = FALSE
extract_result(ss) ==
    IF ss.file_type = "character_multiple"
    THEN multiple_loop(ss.json_data.v, ss.selected_fields, 1)
    ELSE IF ss.file_type = "character"
    THEN extract_character_fields(ss.json_data, ss.selected_fields)
    ELSE IF ss.file_type = "lorebook"
    THEN IF HasKey(ss.json_data, "entries")
         THEN extract_lorebook_fields(ss.json_data, ss.selected_fields)
         ELSE Done(<<>>)
    ELSE Done(<<>>)

RECURSIVE json_data_unrestored(_, _, _)
\* the loop over the cards without `self.json_data = temp_data`: a faulty
\* variant, which the statement on the document of a multiple session must
\* tell from the source's
json_data_unrestored(cards, data, n) ==
    IF n > Len(cards) THEN data
    ELSE json_data_unrestored(cards, cards[n], n + 1)

RECURSIVE json_data_after_loop(_, _, _)
\* self.json_data along the loop of extract_fields over the cards: each pass
\* keeps it in temp_data, sets it to the card for extract_character_fields()
\* and restores it
json_data_after_loop(cards, data, n) ==
    IF n > Len(cards) THEN data
    ELSE LET temp_data == data
             card_data == cards[n]
         IN  json_data_after_loop(cards, temp_data, n + 1)

\* extract_fields() storing the widget's text after its handler has reset the
\* session: a faulty variant, which the statement on the extracted text must
\* tell from the source's
extract_fields_storing_late(ss) ==
    LET result == extract_result(ss)
        reset == reset_interface(ss.extract_btn)
    IN  IF ~result.ok
        THEN [reset EXCEPT !.extracted_text = widget_get(reset.preview_text)]
        ELSE [ss EXCEPT !.preview_text = result.runs,
                        !.extracted_text = widget_get(result.runs),
                        !.extract_btn = Button(ss.extract_btn.packed, "disabled")]

\* the session after extract_fields(), past its guard
extract_fields(ss) ==
    LET result == extract_result(ss)
        lost == ss.file_type = "lorebook" /\ ~HasKey(ss.json_data, "entries")
        base == IF lost THEN reset_interface(ss.extract_btn) ELSE ss
    IN  IF ~result.ok THEN reset_interface(ss.extract_btn)
        ELSE [base EXCEPT !.json_data =
                              IF ss.file_type = "character_multiple"
                              THEN json_data_after_loop(ss.json_data.v,
                                                        ss.json_data, 1)
                              ELSE base.json_data,
                          !.preview_text = result.runs,
                          !.extracted_text = widget_get(result.runs),
                          !.extract_btn = Button(base.extract_btn.packed, "disabled")]

\* a click on the Extract Fields button: extract_fields()
ExtractFields ==
    /\ WindowIdle
    /\ extract_btn.packed
    /\ extract_btn.state = "normal"
    /\ IF ~Truthy(json_data) \/ ~HasFields(selected_fields)
       THEN /\ messages' = <<Message("showwarning", "Warning", <<>>)>>
            /\ UNCHANGED session_vars
       ELSE /\ SetSession(extract_fields(session))
            /\ messages' = IF extract_result(session).ok THEN <<>>
                           ELSE <<Message("showerror", "Error", <<>>)>>
    /\ StaysIdle
    /\ written' = <<>>
    /\ PdfIdle
    /\ UNCHANGED call_vars

\* the save kinds of SaveOptionsDialog that write text
TextSaveTypes ==
    {"formatted", "plain"}

\* save_txt() ending without a file: nothing extracted, or a dialog cancelled
SaveNothing ==
    /\ WindowIdle
    /\ messages' = IF extracted_text = <<>>
                   THEN <<Message("showwarning", "Warning", <<>>)>> ELSE <<>>
    /\ written' = <<>>
    /\ PdfIdle
    /\ UNCHANGED <<session_vars, ui, call_vars>>

\* save_file with reset_interface() in its handler of a failed write: a faulty
\* variant, which the statement on what a save leaves must tell from the
\* source's
SaveTextResetting ==
    /\ WindowIdle
    /\ extracted_text # <<>>
    /\ \E save_type \in TextSaveTypes, opened \in BOOLEAN :
          IF opened
          THEN /\ written' = [kind |-> save_type, stem |-> OUT_STEM,
                              content |-> IF save_type = "formatted"
                                          THEN extracted_text
                                          ELSE get_plain_text(extracted_text)]
               /\ messages' = <<>>
               /\ UNCHANGED session_vars
          ELSE /\ written' = <<>>
               /\ messages' = <<Message("showerror", "Save Error", <<>>)>>
               /\ SetSession(reset_interface(extract_btn))
    /\ PdfIdle
    /\ UNCHANGED <<ui, call_vars>>

\* save_txt() and save_file(file_path, save_type) for the text formats
SaveText ==
    /\ WindowIdle
    /\ extracted_text # <<>>
    /\ \E save_type \in TextSaveTypes, opened \in BOOLEAN :
          IF opened
          THEN /\ written' = [kind |-> save_type, stem |-> OUT_STEM,
                              content |-> IF save_type = "formatted"
                                          THEN extracted_text
                                          ELSE get_plain_text(extracted_text)]
               /\ messages' = <<>>
          ELSE /\ written' = <<>>
               /\ messages' = <<Message("showerror", "Save Error", <<>>)>>
    /\ PdfIdle
    /\ UNCHANGED <<session_vars, ui, call_vars>>

\* save_txt() and save_file(file_path, 'pdf'): create_pdf up to its loop
SavePdf ==
    /\ WindowIdle
    /\ extracted_text # <<>>
    /\ pdf_pc' = "scan"
    /\ SetScanner(scan_start(extracted_text, OUT_STEM))
    /\ raised' = <<>>
    /\ messages' = <<>>
    /\ written' = <<>>
    /\ UNCHANGED <<session_vars, ui, call_vars>>

\* one iteration of the loop of create_pdf
PdfStep ==
    /\ pdf_pc = "scan"
    /\ i <= Len(lines)
    /\ SetScanner(loop_body(scanner))
    /\ UNCHANGED <<pdf_pc, raised, session_vars, ui, messages, written, call_vars>>

\* the text of the exception doc.build(story) raises: str(e), here 'e'
ERR_TEXT ==
    <<101>>

\* the classes of the exceptions doc.build(story) can raise, each with the
\* classes an except clause catches it by (IOError is OSError)
ExceptionBases ==
    [PermissionError   |-> {"PermissionError", "OSError", "Exception"},
     FileNotFoundError |-> {"FileNotFoundError", "OSError", "Exception"},
     OSError           |-> {"OSError", "Exception"},
     ValueError        |-> {"ValueError", "Exception"},
     RuntimeError      |-> {"RuntimeError", "Exception"}]

\* what doc.build(story) can do: build the file (no exception), or raise an
\* exception, which is its class and str(e)
BuildOutcomes ==
    {<<>>} \cup {<<[cls |-> cls, text |-> ERR_TEXT]>> : cls \in DOMAIN ExceptionBases}

RECURSIVE first_handler(_, _, _)
\* the first except clause, from clause n on, that catches an exception of cls
first_handler(handlers, cls, n) ==
    IF n > Len(handlers) THEN 0
    ELSE IF handlers[n].catches \in ExceptionBases[cls] THEN n
    ELSE first_handler(handlers, cls, n + 1)

\* the except clauses of create_pdf with IOError ahead of PermissionError: a
\* faulty order, which the statement on the three kinds must tell from the
\* source's
create_pdf_handlers_io_first ==
    << [catches |-> "OSError", raises |-> "OSError",
        prefix |-> <<73,47,79,32,101,114,114,111,114,32,119,104,105,108,101,32,99,114,
                     101,97,116,105,110,103,32,80,68,70,58,32>>],
       [catches |-> "PermissionError", raises |-> "PermissionError",
        prefix |-> <<85,110,97,98,108,101,32,116,111,32,115,97,118,101,32,80,68,70,58,32>>],
       [catches |-> "Exception", raises |-> "RuntimeError",
        prefix |-> <<85,110,101,120,112,101,99,116,101,100,32,101,114,114,111,114,32,99,
                     114,101,97,116,105,110,103,32,80,68,70,58,32>>] >>

\* the except clauses of create_pdf, in order: the class caught, the class
\* raised and the text put before str(e) ('Unable to save PDF: ', 'I/O error
\* while creating PDF: ', 'Unexpected error creating PDF: ')
create_pdf_handlers ==
    << [catches |-> "PermissionError", raises |-> "PermissionError",
        prefix |-> <<85,110,97,98,108,101,32,116,111,32,115,97,118,101,32,80,68,70,58,32>>],
       [catches |-> "OSError", raises |-> "OSError",
        prefix |-> <<73,47,79,32,101,114,114,111,114,32,119,104,105,108,101,32,99,114,
                     101,97,116,105,110,103,32,80,68,70,58,32>>],
       [catches |-> "Exception", raises |-> "RuntimeError",
        prefix |-> <<85,110,101,120,112,101,99,116,101,100,32,101,114,114,111,114,32,99,
                     114,101,97,116,105,110,103,32,80,68,70,58,32>>] >>

\* the exception create_pdf raises from its handler of the exception e
create_pdf_raise(e) ==
    LET h == create_pdf_handlers[first_handler(create_pdf_handlers, e.cls, 1)]
    IN  [cls |-> h.raises, text |-> h.prefix \o e.text]

\* the except clauses of save_file around create_pdf, in order: the class
\* caught, the title of the error box, and whether the box shows str(e)
save_file_handlers ==
    << [catches |-> "PermissionError", title |-> "Permission Error", shows_text |-> FALSE],
       [catches |-> "OSError", title |-> "I/O Error", shows_text |-> FALSE],
       [catches |-> "Exception", title |-> "PDF Creation Error", shows_text |-> TRUE] >>

\* the message save_file shows for the exception create_pdf raised
pdf_message(e) ==
    LET h == save_file_handlers[first_handler(save_file_handlers, e.cls, 1)]
    IN  <<Message("showerror", h.title, IF h.shows_text THEN e.text ELSE <<>>)>>

\* the end of create_pdf: the last flush, doc.build(story), the handlers of
\* create_pdf and those of save_file
PdfFinish ==
    /\ pdf_pc = "scan"
    /\ i > Len(lines)
    /\ pdf_pc' = "done"
    /\ story' = flush(buffer, story)
    /\ \E outcome \in BuildOutcomes :
          IF outcome = <<>>
          THEN /\ raised' = <<>>
               /\ messages' = <<>>
               /\ written' = [kind |-> "pdf", stem |-> OUT_STEM, content |-> story']
          ELSE /\ raised' = outcome \o <<create_pdf_raise(outcome[1])>>
               /\ messages' = pdf_message(create_pdf_raise(outcome[1]))
               /\ written' = <<>>
    /\ UNCHANGED <<lines, i, buffer, found_char_name, is_lorebook,
                   current_section, in_example_messages, session_vars, ui,
                   call_vars>>

Next ==
    \/ ImportLorebook
    \/ ImportCard
    \/ ImportMultiple
    \/ PickFile
    \/ PickFiles
    \/ FieldDialog
    \/ ExtractFields
    \/ SaveNothing
    \/ SaveText
    \/ SavePdf
    \/ PdfStep
    \/ PdfFinish

Spec ==
    Init /\ [][Next]_vars

----------------------------------------------------------------------------
(* Direct calls of detect_file_type and get_field_value on generated       *)
(* documents, and of create_pdf on generated texts.                        *)

\* how many entries the 'entries' mapping of a generated document holds at most
MaxEntries ==
    2

\* how many items a generated document of the resolver holds at most
MaxKeys ==
    2

\* how many lines a generated text holds at most
MaxLines ==
    4

\* the values an entry of a generated 'entries' mapping takes
EntryKinds ==
    {JDict(<< <<"key", JList(<<JStr(<<107>>)>>)>> >>),
     JDict(<< <<"uid", JNum(1)>>, <<"content", JStr(<<99>>)>> >>),
     JDict(<< <<"comment", JStr(<<109>>)>> >>),
     JDict(<< <<"uid", JNum(1)>> >>),
     JStr(<<109,111,110,107,101,121>>),
     JNum(1)}

\* the ids of the entries, in insertion order
EntryIds ==
    <<"0", "1", "2", "3">>

\* the 'entries' values of the generated documents
EntriesValues ==
    {JDict([n \in 1..Len(es) |-> <<EntryIds[n], es[n]>>]) :
        es \in UNION {[1..n -> EntryKinds] : n \in 0..MaxEntries}}
    \cup {JList(<<JDict(<< <<"content", JStr(<<99>>)>> >>)>>)}

\* the items a generated document may hold under 'entries': none or one
EntriesItems ==
    {<<>>} \cup {<< <<"entries", e>> >> : e \in EntriesValues}

\* the items a generated document may hold under 'spec'
SpecItems ==
    {<<>>,
     << <<"spec", JStr(S_chara_card \o <<95,118,50>>)>> >>,
     << <<"spec", JStr(<<67,72,65,82,65,95,67,65,82,68,95,86,51>>)>> >>,
     << <<"spec", JStr(<<119,111,114,108,100>>)>> >>}

\* the thirteen names of the character-field set
CharacterFieldSet ==
    {"name", "first_mes", "description", "personality", "char_name",
     "char_persona", "char_greeting", "example_dialogue", "avatar", "chat",
     "persona", "greeting", "mes_example"}

\* the items a generated document may hold from the character fields
CharFieldItems ==
    {<<>>} \cup {<< <<f, JStr(<<120>>)>> >> : f \in CharacterFieldSet}

\* the items a generated document may hold under 'data'
DataItems ==
    {<<>>,
     << <<"data", JDict(<< <<"first_mes", JStr(<<72,105>>)>> >>)>> >>,
     << <<"data", JDict(<< <<"foo", JNum(1)>> >>)>> >>,
     << <<"data", JStr(<<110,97,109,101>>)>> >>}

\* the documents detect_file_type is called on
ClassifyDocs ==
    {JDict(e \o s \o c \o d) :
        e \in EntriesItems, s \in SpecItems, c \in CharFieldItems, d \in DataItems}
    \cup {JList(<<>>), JStr(<<110,97,109,101>>)}

\* extensions.depth_prompt.prompt
ExtensionsValue ==
    JDict(<< <<"depth_prompt", JDict(<< <<"prompt", JStr(<<80>>)>> >>)>> >>)

\* the values an item of a generated document of the resolver takes
ResolveValues ==
    {JStr(<<65>>),
     None,
     ExtensionsValue,
     JDict(<< <<"character_note", JStr(<<66>>)>> >>),
     JDict(<< <<"character_note", None>> >>),
     JDict(<< <<"extensions", ExtensionsValue>> >>),
     JDict(<< <<"a", JDict(<< <<"character_note", JStr(<<67>>)>> >>)>> >>),
     JList(<<JStr(<<65>>)>>)}

\* the keys of a generated document of the resolver
ResolveKeys ==
    {"character_note", "extensions", "data", "a"}

\* the documents get_field_value is called on: up to MaxKeys items with
\* distinct keys, in every order; and values that are no mapping
ResolveDocs ==
    {JDict([n \in 1..Len(ks) |-> <<ks[n], vs[n]>>]) :
        <<ks, vs>> \in UNION {
            {kv \in [1..n -> ResolveKeys] \X [1..n -> ResolveValues] :
                \A a, b \in 1..n : a # b => kv[1][a] # kv[1][b]}
            : n \in 0..MaxKeys}}
    \cup {None, JList(<<>>), JList(<<JStr(<<97>>)>>), JStr(<<97>>), JNum(0)}

\* the field names get_field_value is called with
ResolveFields ==
    {"character_note", "a", "prompt"}

\* the entries of the generated lorebooks: the example of the specification's
\* shape (comment, content, a list of keys); a name beside a comment; an empty
\* name and a key that is one string; empty values; no field at all; an entry
\* that is no mapping; a key list holding a number
LorebookEntryKinds ==
    {JDict(<< <<"comment", JStr(<<82,49>>)>>, <<"content", JStr(<<99>>)>>,
              <<"key", JList(<<JStr(<<107>>), JStr(<<110>>)>>)>> >>),
     JDict(<< <<"name", JStr(<<84>>)>>, <<"comment", JStr(<<85>>)>>,
              <<"content", JStr(<<100>>)>> >>),
     JDict(<< <<"name", JStr(<<>>)>>, <<"comment", JStr(<<85>>)>>,
              <<"key", JStr(<<115>>)>> >>),
     JDict(<< <<"content", JStr(<<>>)>>, <<"key", JList(<<>>)>> >>),
     JDict(<<>>),
     JStr(<<120>>),
     JDict(<< <<"key", JList(<<JNum(1)>>)>> >>)}

\* the lorebooks extract_lorebook_fields is called on: up to MaxEntries entries
LorebookDocs ==
    {JDict(<< <<"entries", JDict([n \in 1..Len(es) |-> <<EntryIds[n], es[n]>>])>> >>) :
        es \in UNION {[1..n -> LorebookEntryKinds] : n \in 0..MaxEntries}}
    \cup {JDict(<< <<"entries", JList(<<JDict(<<>>)>>)>> >>)}

\* the lines of the generated texts
LineKinds ==
    {<<>>, <<EQ, EQ>>, <<DASH, DASH>>, <<97, 98>>, S_Keys_sp \o <<107>>,
     S_SCENARIO, <<BULLET, SP, 98>>, <<97, 9, 233, BLACK_SQUARE, 98>>}

\* the lines ahead of the last one in the texts for the mode detection: one
\* fewer than the detection reads, as many, or one more, the first b of them
\* blank and the others text
DetectHeads ==
    {[n \in 1..k |-> IF n <= b THEN <<>> ELSE <<97, 98>>] :
        k \in (DETECT_LINES - 1)..(DETECT_LINES + 1), b \in 0..(DETECT_LINES + 1)}

\* the last line of the texts for the mode detection
DetectTails ==
    {S_Keys_sp \o <<107>>, <<BULLET, SP, 98>>, <<SP, BULLET, SP, 98>>,
     <<BULLET, SP>> \o S_CHARACTER, <<97, 98>>}

\* the lines that may stand around the names of the texts of two names:
\* nothing, or a line of text
AroundNames ==
    {<<>>, <<<<97, 98>>>>}

\* the texts of two names, each between two rules of '='
NameTexts ==
    {Join(a \o <<<<EQ, EQ>>, <<97, 98>>, <<EQ, EQ>>>> \o b
            \o <<<<EQ, EQ>>, <<99>>, <<EQ, EQ>>>> \o c, <<NL>>) :
        a \in AroundNames, b \in AroundNames, c \in AroundNames}

\* the texts create_pdf is called on
ScanTexts ==
    {Join(L, <<NL>>) : L \in UNION {[1..n -> LineKinds] : n \in 0..MaxLines}}
    \cup {Join(h \o <<t>>, <<NL>>) : h \in DetectHeads, t \in DetectTails}
    \cup NameTexts

InitClassify ==
    /\ InitSession
    /\ InitPdf
    /\ call \in {[fn |-> "detect_file_type", json_data |-> d,
                     field_name |-> "none", selected_fields |-> NoFields] :
                    d \in ClassifyDocs}
    /\ ret = NoReturn

\* detect_file_type(json_data)
CallDetect ==
    /\ call.fn = "detect_file_type"
    /\ ret.state = "none"
    /\ ret' = [state |-> "returned", value |-> detect_file_type(call.json_data)]
    /\ UNCHANGED <<call, session_vars, ui, pdf_vars, messages, written>>

SpecClassify ==
    InitClassify /\ [][CallDetect]_vars

InitResolve ==
    /\ InitSession
    /\ InitPdf
    /\ call \in {[fn |-> "get_field_value", json_data |-> d,
                     field_name |-> f, selected_fields |-> NoFields] :
                    d \in ResolveDocs, f \in ResolveFields}
    /\ ret = NoReturn

\* get_field_value(field_name) with self.json_data the document of the call
CallResolve ==
    /\ call.fn = "get_field_value"
    /\ ret.state = "none"
    /\ ret' = [state |-> "returned",
               value |-> get_field_value(call.json_data, call.field_name)]
    /\ UNCHANGED <<call, session_vars, ui, pdf_vars, messages, written>>

SpecResolve ==
    InitResolve /\ [][CallResolve]_vars

InitFormat ==
    /\ InitSession
    /\ InitPdf
    /\ call \in {[fn |-> "extract_lorebook_fields", json_data |-> d,
                     field_name |-> "none", selected_fields |-> sel] :
                    d \in LorebookDocs, sel \in LorebookSelections}
    /\ ret = NoReturn

\* extract_lorebook_fields() with self.json_data and self.selected_fields those
\* of the call: what it inserted, or that it raised
CallFormat ==
    /\ call.fn = "extract_lorebook_fields"
    /\ ret.state = "none"
    /\ ret' = [state |-> "returned",
               value |-> extract_lorebook_fields(call.json_data,
                                                 call.selected_fields)]
    /\ UNCHANGED <<call, session_vars, ui, pdf_vars, messages, written>>

SpecFormat ==
    InitFormat /\ [][CallFormat]_vars

\* the entries of the generated character books: a name and content; a comment
\* and content; an empty name beside a comment; a name without content;
\* content without a title; a name beside a comment; no field at all
BookEntryKinds ==
    {JDict(<< <<"name", JStr(<<84>>)>>, <<"content", JStr(<<99>>)>> >>),
     JDict(<< <<"comment", JStr(<<85>>)>>, <<"content", JStr(<<100>>)>> >>),
     JDict(<< <<"name", JStr(<<>>)>>, <<"comment", JStr(<<85>>)>>,
              <<"content", JStr(<<99>>)>> >>),
     JDict(<< <<"name", JStr(<<84>>)>> >>),
     JDict(<< <<"content", JStr(<<99>>)>> >>),
     JDict(<< <<"name", JStr(<<84>>)>>, <<"comment", JStr(<<85>>)>>,
              <<"content", JStr(<<101>>)>> >>),
     JDict(<<>>)}

\* the cards handle_character_book is called on: a character book of up to
\* MaxEntries entries
BookDocs ==
    {JDict(<< <<"character_book", JDict(<< <<"entries", JList(es)>> >>)>> >>) :
        es \in UNION {[1..n -> BookEntryKinds] : n \in 0..MaxEntries}}

InitBook ==
    /\ InitSession
    /\ InitPdf
    /\ call \in {[fn |-> "handle_character_book", json_data |-> d,
                     field_name |-> "none",
                     selected_fields |-> [character_book |-> on]] :
                    d \in BookDocs, on \in BOOLEAN}
    /\ ret = NoReturn

\* handle_character_book() with self.json_data and self.selected_fields those
\* of the call: what it inserted, or that it raised
CallBook ==
    /\ call.fn = "handle_character_book"
    /\ ret.state = "none"
    /\ ret' = [state |-> "returned",
               value |-> handle_character_book(call.json_data,
                                               call.selected_fields)]
    /\ UNCHANGED <<call, session_vars, ui, pdf_vars, messages, written>>

SpecBook ==
    InitBook /\ [][CallBook]_vars

\* the documents the two import modes are compared on: with or without "spec",
\* a top-level name ('Top' or the number 7), a top-level description, and
\* "data" (absent, {}, {"name": "Deep"}, {"name": "Top", "description": "d"},
\* {"description": "e", "alternate_greetings": [" Hi "]})
ModeDocs ==
    {JDict(spec \o name \o description \o data) :
        spec \in {<<>>, << <<"spec", JStr(<<99,104,97,114,97,95,99,97,114,100,95,118,50>>)>> >>},
        name \in {<<>>, << <<"name", JStr(<<84,111,112>>)>> >>, << <<"name", JNum(7)>> >>},
        description \in {<<>>, << <<"description", JStr(<<100>>)>> >>},
        data \in {<<>>,
                  << <<"data", JDict(<<>>)>> >>,
                  << <<"data", JDict(<< <<"name", JStr(<<68,101,101,112>>)>> >>)>> >>,
                  << <<"data", JDict(<< <<"name", JStr(<<84,111,112>>)>>,
                                        <<"description", JStr(<<100>>)>> >>)>> >>,
                  << <<"data", JDict(<< <<"description", JStr(<<101>>)>>,
                                        <<"alternate_greetings",
                                          JList(<<JStr(<<32,72,105,32>>)>>)>> >>)>> >>}}

\* the file t.json holding the document d
ModeFile(d) ==
    [stem |-> <<116>>, status |-> "ok", json |-> d]

InitModes ==
    /\ InitSession
    /\ InitPdf
    /\ call \in {[fn |-> "import_json", json_data |-> d, field_name |-> "none",
                     selected_fields |-> sel] :
                    d \in ModeDocs, sel \in CharSelections}
    /\ ret = NoReturn

\* import_json(import_type) on the one file f, the field dialog closed with
\* dlg and, when the Extract Fields button is there to be clicked,
\* extract_fields(): the extracted text the session ends with is returned
import_and_extract(import_type, f, dlg, state, value) ==
    \E loaded \in {IF import_type = "multiple"
                   THEN import_multiple(<<f>>, reset_interface(Button(FALSE, "normal")))
                   ELSE import_single(import_type, f,
                                      reset_interface(Button(FALSE, "normal")))} :
        \E chosen \in {IF loaded.file_type = NoType THEN loaded
                       ELSE handle_file_import(loaded, dlg)} :
            \E done \in {IF /\ chosen.extract_btn = Button(TRUE, "normal")
                            /\ Truthy(chosen.json_data)
                            /\ HasFields(chosen.selected_fields)
                         THEN extract_fields(chosen)
                         ELSE chosen} :
                ret' = [state |-> state, value |-> value \o <<done.extracted_text>>]

\* 'Import Card' on the file of the call, its fields selected and extracted
CallImportCard ==
    /\ call.fn = "import_json"
    /\ ret.state = "none"
    /\ import_and_extract("card", ModeFile(call.json_data), call.selected_fields,
                          "single", <<>>)
    /\ UNCHANGED <<call, session_vars, ui, pdf_vars, messages, written>>

\* 'Import Cards (Multiple)' on the same file alone, the same fields selected
\* and extracted
CallImportMultiple ==
    /\ call.fn = "import_json"
    /\ ret.state = "single"
    /\ import_and_extract("multiple", ModeFile(call.json_data),
                          call.selected_fields, "returned", ret.value)
    /\ UNCHANGED <<call, session_vars, ui, pdf_vars, messages, written>>

SpecModes ==
    InitModes /\ [][CallImportCard \/ CallImportMultiple]_vars

\* the lines of the texts get_plain_text is called on: '', '==', '  ──',
\* 'ab ', 'SCENARIO', '► b', ' ► b', '► ==', '►'
PlainLineKinds ==
    {<<>>, <<EQ, EQ>>, <<SP, SP, DASH, DASH>>, <<97, 98, SP>>, S_SCENARIO,
     <<BULLET, SP, 98>>, <<SP, BULLET, SP, 98>>, <<BULLET, SP, EQ, EQ>>, <<BULLET>>}

\* the texts get_plain_text is called on
PlainTexts ==
    {Join(L, <<NL>>) : L \in UNION {[1..n -> PlainLineKinds] : n \in 0..MaxLines}}

InitPlain ==
    /\ InitSession
    /\ InitPdf
    /\ call \in {[fn |-> "get_plain_text", formatted_text |-> text] :
                    text \in PlainTexts}
    /\ ret = NoReturn

\* get_plain_text(formatted_text)
CallPlain ==
    /\ call.fn = "get_plain_text"
    /\ ret.state = "none"
    /\ ret' = [state |-> "returned", value |-> get_plain_text(call.formatted_text)]
    /\ UNCHANGED <<call, session_vars, ui, pdf_vars, messages, written>>

SpecPlain ==
    InitPlain /\ [][CallPlain]_vars

InitScan ==
    /\ InitSession
    /\ \E text \in ScanTexts :
          /\ pdf_pc = "scan"
          /\ lines = scan_start(text, OUT_STEM).lines
          /\ i = 1
          /\ buffer = <<>>
          /\ story = scan_start(text, OUT_STEM).story
          /\ found_char_name = FALSE
          /\ is_lorebook = scan_start(text, OUT_STEM).is_lorebook
          /\ current_section = None
          /\ in_example_messages = FALSE
          /\ raised = <<>>
    /\ call = NoCall
    /\ ret = NoReturn

ScanNext ==
    \/ PdfStep
    \/ PdfFinish

SpecScan ==
    InitScan /\ [][ScanNext]_vars

----------------------------------------------------------------------------
(* The statements checked on the model.                                    *)

\* two JSON values are the same value
SameValue(x, y) ==
    x.t = y.t /\ x.v = y.v

RECURSIVE key_occurs(_, _)
\* a key named k occurs in the mapping d or in a mapping nested in it
key_occurs(d, k) ==
    /\ IsDict(d)
    /\ \/ HasKey(d, k)
       \/ \E n \in 1..Len(d.v) : key_occurs(d.v[n][2], k)

\* the path extensions.depth_prompt.prompt exists in the mapping d
alias_path(d) ==
    /\ IsDict(d)
    /\ HasKey(d, "extensions")
    /\ IsDict(Item(d, "extensions"))
    /\ HasKey(Item(d, "extensions"), "depth_prompt")
    /\ IsDict(Item(Item(d, "extensions"), "depth_prompt"))
    /\ HasKey(Item(Item(d, "extensions"), "depth_prompt"), "prompt")

\* the value at extensions.depth_prompt.prompt of d
alias_value(d) ==
    Item(Item(Item(d, "extensions"), "depth_prompt"), "prompt")

\* get_field_value has returned from a call with this field name
Resolved(field_name) ==
    /\ call.fn = "get_field_value"
    /\ call.field_name = field_name
    /\ ret.state = "returned"

\* C1: get_field_value("character_note") returns the value at
\* extensions.depth_prompt.prompt of the document, the path standing at the top
\* level or under data, whenever the path exists and the document holds no key
\* literally named character_note (none at all, so none before the path in the
\* traversal order).
CharacterNoteAlias ==
    /\ (/\ Resolved("character_note")
        /\ ~key_occurs(call.json_data, "character_note")
        /\ alias_path(call.json_data))
       => SameValue(ret.value, alias_value(call.json_data))
    /\ (/\ Resolved("character_note")
        /\ ~key_occurs(call.json_data, "character_note")
        /\ ~alias_path(call.json_data)
        /\ IsDict(call.json_data)
        /\ HasKey(call.json_data, "data")
        /\ alias_path(Item(call.json_data, "data")))
       => SameValue(ret.value, alias_value(Item(call.json_data, "data")))

\* detect_file_type has returned
Classified ==
    call.fn = "detect_file_type" /\ ret.state = "returned"

\* the document holds a field of the character-field set at its top level
TopCharField(d) ==
    IsDict(d) /\ \E f \in CharacterFieldSet : HasKey(d, f)

\* the document's 'entries' is a mapping that holds an entry
HasFirstEntry(d) ==
    /\ IsDict(d)
    /\ HasKey(d, "entries")
    /\ IsDict(Item(d, "entries"))
    /\ Len(Item(d, "entries").v) > 0

\* the first entry of the document's 'entries', in insertion order
FirstEntry(d) ==
    Item(d, "entries").v[1][2]

\* the three names that make an entry a lorebook entry, and their text
LorebookWords ==
    {<<"key", S_key>>, <<"content", S_content>>, <<"comment", S_comment>>}

\* the entry is a mapping with a key named key, content or comment
LorebookEntry(e) ==
    IsDict(e) /\ \E w \in LorebookWords : HasKey(e, w[1])

\* the entry is a list that holds, or a string that contains, one of the names
MentionsLorebookWord(e) ==
    \/ IsList(e) /\ \E w \in LorebookWords : \E n \in 1..Len(e.v) :
           e.v[n].t = "str" /\ e.v[n].v = w[2]
    \/ IsStr(e) /\ \E w \in LorebookWords : Contains(e.v, w[2])

\* the entry is a number, a boolean or null
ScalarEntry(e) ==
    e.t \in {"num", "bool", "null"}

LorebookCheckRunsFirst ==
    (/\ Classified
     /\ HasFirstEntry(call.json_data)
     /\ LorebookEntry(FirstEntry(call.json_data)))
    => ret.value = "lorebook"

\* a document that is a lorebook by its entries and a character card by its
\* spec string, its top level and its data has been classified 'lorebook'
LorebookAmongCharacterFields ==
    /\ Classified
    /\ HasFirstEntry(call.json_data)
    /\ LorebookEntry(FirstEntry(call.json_data))
    /\ spec_check(call.json_data)
    /\ TopCharField(call.json_data)
    /\ data_check(call.json_data)
    /\ ret.value = "lorebook"

\* extract_lorebook_fields has returned
Formatted ==
    call.fn = "extract_lorebook_fields" /\ ret.state = "returned"

\* the entries of the lorebook of the call, in insertion order
CallEntries ==
    Item(call.json_data, "entries").v

\* the label of an entry: its name when it has a 'name' key, else its comment
entry_label(entry) ==
    IF HasKey(entry, "name") THEN Item(entry, "name")
    ELSE IF HasKey(entry, "comment") THEN Item(entry, "comment")
    ELSE JStr(<<>>)

\* the keys of an entry joined by ", "; a key that is one string stands as it is
joined_keys(keys) ==
    IF IsList(keys) THEN Join([n \in 1..Len(keys.v) |-> keys.v[n].v], S_comma_sp)
    ELSE keys.v

\* the label and the rule of 50 dashes under it
label_runs(entry) ==
    << Run(entry_label(entry).v \o <<NL>>, "section_title"),
       Run(Rep(DASH, 50) \o <<NL>>, "separator") >>

\* the blank run ahead of every entry but the first
blank_run(n) ==
    IF n > 1 THEN <<Run(<<NL, NL>>, "")>> ELSE <<>>

\* the runs of entry n as C10 states them: the content and the keys line
\* whenever their box is checked
stated_entry_runs(entry, sel) ==
    (IF sel["label"] /\ Truthy(entry_label(entry)) THEN label_runs(entry) ELSE <<>>)
    \o (IF sel["content"]
        THEN <<Run(Get(entry, "content", JStr(<<>>)).v \o <<NL>>, "content")>>
        ELSE <<>>)
    \o (IF sel["key"]
        THEN <<Run(S_Keys_sp \o joined_keys(Get(entry, "key", JList(<<>>)))
                   \o <<NL>>, "book_entry")>>
        ELSE <<>>)

\* the runs of entry n with the content and the keys line left out when empty
nonempty_entry_runs(entry, sel) ==
    (IF sel["label"] /\ Truthy(entry_label(entry)) THEN label_runs(entry) ELSE <<>>)
    \o (IF sel["content"] /\ Truthy(Get(entry, "content", JStr(<<>>)))
        THEN <<Run(Get(entry, "content", JStr(<<>>)).v \o <<NL>>, "content")>>
        ELSE <<>>)
    \o (IF sel["key"] /\ Truthy(Get(entry, "key", JList(<<>>)))
        THEN <<Run(S_Keys_sp \o joined_keys(Get(entry, "key", JList(<<>>)))
                   \o <<NL>>, "book_entry")>>
        ELSE <<>>)

\* every entry is a mapping whose texts are strings and whose key is a string
\* or a list of strings
WellFormedEntries ==
    /\ IsDict(Item(call.json_data, "entries"))
    /\ \A n \in 1..Len(CallEntries) :
          LET entry == CallEntries[n][2]
          IN  /\ IsDict(entry)
              /\ IsStr(entry_label(entry))
              /\ IsStr(Get(entry, "content", JStr(<<>>)))
              /\ LET keys == Get(entry, "key", JList(<<>>))
                 IN  \/ IsStr(keys)
                     \/ IsList(keys) /\ \A m \in 1..Len(keys.v) : IsStr(keys.v[m])

ScannerAdvances ==
    (pdf_pc = "scan" /\ i <= Len(lines)) => loop_body(scanner).i > i

\* extract_fields has formatted the document of a session of this type
Extracted(type) ==
    file_type = type /\ extracted_text # <<>>

\* a line that holds more than whitespace
NonBlank(line) ==
    Len(Strip(line)) > 0

\* the lines of a text that hold more than whitespace, in order
NonBlankLines(text) ==
    SelectSeq(Split(text, NL), NonBlank)

\* the name a card shows in its header
display_name(card) ==
    IF Truthy(get_field_value(card, "name"))
    THEN PyStr(get_field_value(card, "name"))
    ELSE S_Unnamed_Character

\* the sections of a character card in their fixed order, with their titles
StatedSections ==
    << <<"description", S_CHARACTER_DEFINITION>>,
       <<"personality", S_PERSONALITY>>,
       <<"prompt", S_CHARACTER_NOTE>>,
       <<"scenario", S_SCENARIO>>,
       <<"first_mes", S_FIRST_MESSAGE>>,
       <<"mes_example", S_EXAMPLE_MESSAGES>> >>

\* the lines of section n: its title, a rule of 50 dashes and its value, when
\* the section is selected and its value is not empty
stated_section_lines(card, sel, n) ==
    LET value == get_field_value(card, StatedSections[n][1])
    IN  IF sel[StatedSections[n][1]] /\ Truthy(value)
        THEN <<StatedSections[n][2], Rep(DASH, 50)>> \o NonBlankLines(PyStr(value))
        ELSE <<>>

\* the header and the sections of a card, line by line
stated_character_lines(card, sel) ==
    <<Rep(EQ, 50), display_name(card), Rep(EQ, 50)>>
    \o Concat([n \in 1..Len(StatedSections) |-> stated_section_lines(card, sel, n)])

\* the sequence starts with the given sequence
BeginsWith(seq, head) ==
    Len(seq) >= Len(head) /\ SubSeq(seq, 1, Len(head)) = head

\* C9: the text of a character card begins with a line of 50 '=', the display
\* name ('Unnamed Character' when no name resolves) and a line of 50 '=', and
\* goes on, for description, personality, prompt, scenario, first_mes and
\* mes_example in this order, with the title, a rule of 50 dashes and the value
\* of exactly the sections that are selected and not empty. Blank lines aside,
\* these are the first lines of the text, one for one.
CharacterTextAsStated ==
    Extracted("character") =>
        BeginsWith(NonBlankLines(WidgetText(preview_text)),
                   stated_character_lines(json_data, selected_fields))

\* the cards of a multiple session, in the order of the output
Cards ==
    json_data.v

\* the rule between two cards: a run holding a line of 60 '='
stated_card_rule ==
    Run(<<NL, NL>> \o Rep(EQ, 60) \o <<NL, NL>>, "separator")

\* how many lines of the text are a rule of 60 '='
card_rule_lines(text) ==
    LET L == Split(text, NL)
        rule == Rep(EQ, 60)
    IN  Cardinality({k \in 1..Len(L) : L[k] = rule})

\* C5: in a multiple session of N cards the widget holds the full runs of each
\* card, one card after the other, with a separator run of 60 '=' ahead of
\* every card but the first; so the text has N - 1 lines of 60 '='.
RulesBetweenCards ==
    Extracted("character_multiple") =>
        /\ preview_text =
               Concat([n \in 1..Len(Cards) |->
                          (IF n > 1 THEN <<stated_card_rule>> ELSE <<>>)
                          \o extract_character_fields(Cards[n],
                                                      selected_fields).runs])
        /\ card_rule_lines(extracted_text) = Len(Cards) - 1

\* two cards have been extracted in one multiple session
TwoCardsExtracted ==
    /\ Extracted("character_multiple")
    /\ Len(Cards) = 2
    /\ \E n \in 1..Len(preview_text) : preview_text[n] = stated_card_rule

\* the key a card is ordered by: its display name, lower-cased, or the stem of
\* its file when no name resolves
order_key(n) ==
    IF Truthy(get_field_value(Cards[n], "name"))
    THEN Lower(PyStr(get_field_value(Cards[n], "name")))
    ELSE Lower(card_stems[n])

\* C6: the cards of a multiple session stand in the output in case-insensitive
\* non-decreasing order of the name their header shows, a card without a
\* resolvable name being ordered by the stem of its file.
CardsInDisplayNameOrder ==
    Extracted("character_multiple") =>
        \A n \in 1..(Len(Cards) - 1) : StrLeq(order_key(n), order_key(n + 1))

\* how many page breaks the block list holds
page_breaks ==
    Cardinality({k \in 1..Len(story) : story[k].kind = "PageBreak"})

\* C4: the export of a multiple extraction of N cards holds N - 1 page breaks.
PageBreaksBetweenCards ==
    (pdf_pc = "done" /\ file_type = "character_multiple") =>
        page_breaks = Len(Cards) - 1

\* the texts of the blocks of a style, in order
RECURSIVE block_texts(_, _)
block_texts(blocks, style) ==
    IF Len(blocks) = 0 THEN <<>>
    ELSE (IF blocks[1].kind = style THEN <<blocks[1].text>> ELSE <<>>)
         \o block_texts(Tail(blocks), style)

\* the titles the formatter emitted: the text of its section_title runs
RECURSIVE emitted_titles(_)
emitted_titles(runs) ==
    IF Len(runs) = 0 THEN <<>>
    ELSE (IF runs[1].tag = "section_title" THEN <<Strip(runs[1].text)>> ELSE <<>>)
         \o emitted_titles(Tail(runs))

\* the names the formatter emitted: the second line of its header runs
RECURSIVE emitted_names(_)
emitted_names(runs) ==
    IF Len(runs) = 0 THEN <<>>
    ELSE (IF runs[1].tag = "header"
          THEN <<Strip(Split(runs[1].text, NL)[2])>> ELSE <<>>)
         \o emitted_names(Tail(runs))

\* no emitted name holds a rule character or is one of the reserved titles
NamesAreClean ==
    \A n \in 1..Len(emitted_names(preview_text)) :
        LET name == emitted_names(preview_text)[n]
        IN  /\ \A k \in 1..Len(name) : name[k] \notin {EQ, DASH}
            /\ name \notin MAIN_SECTIONS

\* C2: the text of an extraction of character cards whose names are clean,
\* scanned by create_pdf, gives back the section titles and the display names
\* the formatter emitted, in the same order.
RoundTrip ==
    (/\ pdf_pc = "done"
     /\ file_type \in {"character", "character_multiple"}
     /\ NamesAreClean)
    => /\ block_texts(story, "SectionTitle") = emitted_titles(preview_text)
       /\ block_texts(story, "CharacterName") = emitted_names(preview_text)

\* get_field_value has returned from a call on a mapping
ResolvedOnMapping ==
    /\ call.fn = "get_field_value"
    /\ ret.state = "returned"
    /\ IsDict(call.json_data)

RECURSIVE first_occurrence(_, _)
RECURSIVE first_nested_occurrence(_, _, _)
\* the occurrence of the key f reached first in the mapping d: the key of d
\* itself, else the first occurrence in the nested mappings, in insertion
\* order and depth first; found tells whether there is one
first_occurrence(d, f) ==
    IF HasKey(d, f) THEN [found |-> TRUE, value |-> Item(d, f)]
    ELSE first_nested_occurrence(d, f, 1)

\* the first occurrence in the mappings nested in d from item n on
first_nested_occurrence(d, f, n) ==
    IF n > Len(d.v) THEN [found |-> FALSE, value |-> None]
    ELSE IF IsDict(d.v[n][2]) /\ first_occurrence(d.v[n][2], f).found
    THEN first_occurrence(d.v[n][2], f)
    ELSE first_nested_occurrence(d, f, n + 1)

RECURSIVE first_value(_, _)
RECURSIVE first_nested_value(_, _, _)
\* as first_occurrence, but a key whose value is null is passed over in the
\* nested mappings, while a null under the key of d itself ends the search of d
first_value(d, f) ==
    IF HasKey(d, f) THEN Item(d, f) ELSE first_nested_value(d, f, 1)

\* the first value that is not null in the mappings nested in d from item n on
first_nested_value(d, f, n) ==
    IF n > Len(d.v) THEN None
    ELSE IF IsDict(d.v[n][2]) /\ ~IsNone(first_value(d.v[n][2], f))
    THEN first_value(d.v[n][2], f)
    ELSE first_nested_value(d, f, n + 1)

\* C11, as stated: on a mapping, get_field_value returns the value of the key
\* named field_name at the top level when there is one, else the value of the
\* occurrence reached first, depth first and in insertion order, in the nested
\* mappings (document.data is one of them), else None; it never raises.
FirstMatchAsStated ==
    ResolvedOnMapping =>
        SameValue(ret.value,
                  first_occurrence(call.json_data, call.field_name).value)

\* C11, amended: as stated, but an occurrence whose value is null does not
\* count in a nested mapping, where the search goes on to the next occurrence;
\* a null under the key at the top level ends the search of the nested
\* mappings, and only document.data is searched after it.
FirstMatchNotNull ==
    ResolvedOnMapping =>
        SameValue(ret.value,
                  IF ~IsNone(first_value(call.json_data, call.field_name))
                  THEN first_value(call.json_data, call.field_name)
                  ELSE IF /\ HasKey(call.json_data, "data")
                          /\ IsDict(Item(call.json_data, "data"))
                  THEN first_value(Item(call.json_data, "data"), call.field_name)
                  ELSE None)

\* the key stands at the top level and in a nested mapping, and the value of
\* the top level has been returned
TopLevelMatchPreferred ==
    /\ ResolvedOnMapping
    /\ HasKey(call.json_data, call.field_name)
    /\ ~IsNone(Item(call.json_data, call.field_name))
    /\ \E n \in 1..Len(call.json_data.v) :
          key_occurs(call.json_data.v[n][2], call.field_name)
    /\ SameValue(ret.value, Item(call.json_data, call.field_name))

\* get_field_value has returned from a call, whatever its document
ResolveReturned ==
    call.fn = "get_field_value" /\ ret.state = "returned"

ValidFile(f) ==
    f.status = "ok" /\ detect_file_type(f.json) = "character"

\* the reason a file that is no valid card is reported with
stated_reason(f) ==
    IF f.status = "invalid_json" THEN "Invalid JSON format"
    ELSE IF f.status # "ok" \/ detect_file_type(f.json) = "raise" THEN "Error"
    ELSE "Not a character card"

\* the character data a valid file holds: its data mapping, or the document
card_data(f) ==
    IF HasKey(f.json, "data") /\ IsDict(Item(f.json, "data"))
    THEN Item(f.json, "data") ELSE f.json

\* the sequences a and b hold the same elements as often
SameElements(a, b) ==
    /\ Len(a) = Len(b)
    /\ \A n \in 1..Len(a) :
          Cardinality({k \in 1..Len(a) : a[k] = a[n]})
              = Cardinality({k \in 1..Len(b) : b[k] = a[n]})

\* the state a multiple import of the files ends in, as stated: the files that
\* are no valid card, and only they, are reported in one warning by name and
\* reason; no error is shown; with one valid file or more the session holds
\* exactly the valid cards and goes on to the field dialog
BatchAsStated(files, msgs, ss, u) ==
    LET good == SelectSeq(files, ValidFile)
        bad == SelectSeq(files, LAMBDA f : ~ValidFile(f))
    IN  /\ \A n \in 1..Len(msgs) : msgs[n].box = "showwarning"
        /\ IF Len(bad) = 0 THEN msgs = <<>>
           ELSE /\ Len(msgs) = 1
                /\ msgs[1].detail =
                      [n \in 1..Len(bad) |->
                          [name |-> bad[n].stem \o S_json_ext,
                           reason |-> stated_reason(bad[n])]]
        /\ Len(good) > 0 =>
              /\ ss.file_type = "character_multiple"
              /\ IsList(ss.json_data)
              /\ SameElements(ss.json_data.v,
                              [n \in 1..Len(good) |-> card_data(good[n])])
              /\ u.at = "field_dialog"

\* the files of the paths of a file picker
FilesOf(paths) ==
    [n \in 1..Len(paths) |-> Files[paths[n]]]

\* the step is the multiple import of the files of paths
ImportsBatch(paths) ==
    /\ ui.at = "file_picker"
    /\ ui.import_type = "multiple"
    /\ ui'.at # "file_picker"
    /\ Len(paths) > 0
    /\ session' = import_multiple(FilesOf(paths), session)
    /\ messages' = import_multiple_messages(FilesOf(paths))

\* C13: in a multiple import every file is validated on its own: a file that
\* is invalid JSON, unreadable or no character card is left out and reported by
\* name with its reason, it never aborts the batch, and with one valid file or
\* more the session ends holding exactly the valid cards, its file_type
\* 'character_multiple'.
BatchValidatedPerFile ==
    [][\A paths \in FilePaths :
          ImportsBatch(paths) =>
              BatchAsStated(FilesOf(paths), messages', session', ui')]_vars

\* the batches of C13 without a card whose name is a number
BatchValidatedPerFileOfTextNames ==
    [][\A paths \in FilePaths :
          (ImportsBatch(paths) /\ \A n \in 1..Len(paths) : Files[paths[n]] # FILE_num) =>
              BatchAsStated(FilesOf(paths), messages', session', ui')]_vars

\* the clean baseline: no document, no selection, no file type, no text
CleanBaseline ==
    /\ IsNone(json_data)
    /\ selected_fields = NoFields
    /\ file_type = NoType
    /\ extracted_text = <<>>

\* the titles of the error boxes of save_file and save_txt
SaveErrorTitles ==
    {"Save Error", "Permission Error", "I/O Error", "PDF Creation Error"}

\* an error box is showing
ErrorShown ==
    \E n \in 1..Len(messages) : messages[n].box = "showerror"

\* an error box of a save is showing
SaveErrorShown ==
    \E n \in 1..Len(messages) :
        messages[n].box = "showerror" /\ messages[n].title \in SaveErrorTitles

\* the session is whole: a document and its file type are set together, a
\* selection needs a document, an extracted text needs a selection
SessionWhole ==
    /\ IsNone(json_data) <=> file_type = NoType
    /\ HasFields(selected_fields) => ~IsNone(json_data)
    /\ extracted_text # <<>> => HasFields(selected_fields)

\* C14, as stated: whenever an action of the user (an import, an extraction, a
\* save) has failed and shown its error, the session is at the clean baseline.
FailureResetsSession ==
    ErrorShown => CleanBaseline

\* C14, amended: a failed import and a failed extraction show an error and
\* leave the session at the clean baseline; a failed save shows its error and
\* leaves the session as it was, document, selection and extracted text
\* included; no step leaves a session that is set in part.
FailureResetsUnlessSave ==
    [][/\ (ErrorShown /\ ~SaveErrorShown)' => CleanBaseline'
       /\ SaveErrorShown' => UNCHANGED session_vars
       /\ SessionWhole']_vars

\* an import of a file of the wrong type has failed: its error shows and the
\* session is at the clean baseline
ImportFailed ==
    /\ ErrorShown
    /\ ~SaveErrorShown
    /\ ui.at = "idle"
    /\ CleanBaseline

\* a save has failed: its error shows and the session still holds its text
SaveFailedSessionKept ==
    /\ SaveErrorShown
    /\ written = <<>>
    /\ extracted_text # <<>>
    /\ ~IsNone(json_data)

\* create_pdf has ended in an exception: the one its handler caught, raised[1],
\* and the one it raised to save_file, raised[2]
PdfRaised ==
    pdf_pc = "done" /\ raised # <<>>

\* the kind an exception is of, as stated: permission for a PermissionError,
\* I/O for every other OSError, unexpected for the rest
stated_kind(cls) ==
    IF cls = "PermissionError" THEN "PermissionError"
    ELSE IF cls \in {"OSError", "FileNotFoundError"} THEN "OSError"
    ELSE "RuntimeError"

\* the title of the box save_file shows for a kind: one per kind
stated_title(kind) ==
    CASE kind = "PermissionError" -> "Permission Error"
      [] kind = "OSError"         -> "I/O Error"
      [] kind = "RuntimeError"    -> "PDF Creation Error"

\* C15: an exception raised while create_pdf builds the output is raised again
\* as exactly one of PermissionError, IOError and RuntimeError, with the text
\* of the first in its own; a PermissionError stays a PermissionError and is
\* never made an IOError; save_file shows one box, whose title is the one of
\* the kind, and no two kinds share a title.
ExceptionsReclassified ==
    PdfRaised =>
        /\ raised[2].cls \in {"PermissionError", "OSError", "RuntimeError"}
        /\ raised[2].cls = stated_kind(raised[1].cls)
        /\ Contains(raised[2].text, raised[1].text)
        /\ Len(messages) = 1
        /\ messages[1].box = "showerror"
        /\ messages[1].title = stated_title(stated_kind(raised[1].cls))
        /\ \A k1, k2 \in {"PermissionError", "OSError", "RuntimeError"} :
              stated_title(k1) = stated_title(k2) => k1 = k2
        /\ written = <<>>

\* doc.build raised a PermissionError and save_file has shown 'Permission Error'
PermissionDeniedShown ==
    /\ PdfRaised
    /\ raised[1].cls = "PermissionError"
    /\ raised[2].cls = "PermissionError"
    /\ messages[1].title = "Permission Error"

\* a line that marks a text as a lorebook's: it holds 'Keys:', or it begins,
\* after its leading whitespace, with the bullet and does not hold 'CHARACTER'
LorebookMark(line) ==
    \/ Contains(line, S_Keys)
    \/ StartsWith(Strip(line), <<BULLET>>) /\ ~Contains(line, S_CHARACTER)

\* the first count lines of L
FirstLines(L, count) ==
    SubSeq(L, 1, IF Len(L) < count THEN Len(L) ELSE count)

\* some line of L marks a lorebook
SomeLorebookMark(L) ==
    \E n \in 1..Len(L) : LorebookMark(L[n])

\* C16, as stated: the scan is in lorebook mode iff one of the first 10 lines
\* of the text that are not empty marks a lorebook.
ModeFromNonEmptyLines ==
    pdf_pc # "idle" =>
        (is_lorebook <=> SomeLorebookMark(FirstLines(SelectSeq(lines, NonBlank), 10)))

\* C16, amended: the scan is in lorebook mode iff one of the first 10 lines of
\* the text, the empty ones counted, marks a lorebook.
ModeFromFirstLines ==
    pdf_pc # "idle" =>
        (is_lorebook <=> SomeLorebookMark(FirstLines(lines, 10)))

\* a text whose 10th line is the first to mark a lorebook, blank lines ahead
\* of it, is scanned in lorebook mode
MarkOnTenthLine ==
    /\ pdf_pc = "scan"
    /\ Len(lines) >= 10
    /\ lines[1] = <<>>
    /\ LorebookMark(lines[10])
    /\ ~SomeLorebookMark(FirstLines(lines, 9))
    /\ is_lorebook

RECURSIVE stated_clean(_)
\* a line with '■' and '□' dropped, '►' made '->' and every character from
\* code point 128 on dropped
stated_clean(text) ==
    IF Len(text) = 0 THEN <<>>
    ELSE (CASE text[1] = BULLET -> <<45, 62>>
            [] text[1] # BULLET /\ text[1] < 128 -> <<text[1]>>
            [] OTHER -> <<>>)
         \o stated_clean(Tail(text))

\* every character of the blocks of the story lies in lo..hi
StoryWithin(lo, hi) ==
    \A n \in 1..Len(story) : \A k \in 1..Len(story[n].text) :
        story[n].text[k] \in lo..hi

\* C17, as stated: every character of every text block emitted lies in the
\* 7-bit printable range, 32 to 126.
EmittedTextIsPrintable ==
    StoryWithin(32, 126)

\* C17, amended: clean_text drops '■' and '□', maps '►' to '->' and drops every
\* character from code point 128 on, so every character of every text block
\* emitted is 7-bit ASCII; the control characters below 32 inside a line stay.
EmittedTextIsAscii ==
    /\ StoryWithin(0, 127)
    /\ \A n \in 1..Len(lines) :
          clean_text(lines[n]) = Strip(stated_clean(lines[n]))

\* the line 'a', TAB, 'é', '■', 'b' has been emitted as 'a', TAB, 'b', and a
\* line with the bullet as '-> b'
CleanedLinesEmitted ==
    /\ \E n \in 1..Len(lines) : lines[n] = <<97, 9, 233, BLACK_SQUARE, 98>>
    /\ \E n \in 1..Len(story) : story[n].text = <<97, 9, 98>>
    /\ \E n \in 1..Len(story) : story[n].text = <<45, 62, 32, 98>>

\* get_plain_text has returned from a call
PlainReturned ==
    call.fn = "get_plain_text" /\ ret.state = "returned"

\* a line of only '=' or only '─'
RuleLine(line) ==
    Len(line) > 0 /\ (AllChar(line, EQ) \/ AllChar(line, DASH))

\* a line of the formatted text that stays in the plain text: it holds more
\* than whitespace and is, its whitespace aside, no rule
KeptLine(line) ==
    NonBlank(line) /\ ~RuleLine(Strip(line))

\* what a kept line becomes: its first character, when that is the bullet, is
\* taken off, and the whitespace around the rest
stated_plain_line(line) ==
    IF line[1] = BULLET THEN Strip(Tail(line)) ELSE Strip(line)

TextBlocks(st) ==
    SelectSeq(st, LAMBDA b : b.kind \notin {"DocumentTitle", "HRFlowable",
                                            "Spacer", "PageBreak"})

\* the buffered lines as one paragraph, in order; nothing for an empty buffer
stated_flush(buf) ==
    IF Len(buf) = 0 THEN <<>>
    ELSE <<Paragraph(Join(buf, <<60,98,114,47,62>>), "Content")>>

\* the scanner takes one step of its loop
ScanStep ==
    /\ pdf_pc = "scan"
    /\ i <= Len(lines)
    /\ pdf_pc' = "scan"

\* the line after the current one is blank or made only of '─'
NextBlankOrDashes ==
    /\ i + 1 <= Len(lines)
    /\ \/ ~NonBlank(lines[i + 1])
       \/ AllChar(Strip(lines[i + 1]), DASH)

\* C19: in lorebook mode a line that is not empty once cleaned and does not
\* begin with 'Keys:' is emitted as a title iff the line after it is blank or
\* made only of '─', and is buffered otherwise; the buffered lines are emitted
\* as one paragraph, in order, ahead of a title and ahead of a 'Keys:' line; a
\* 'Keys:' line is emitted at once as a unit of its own and never buffered.
LorebookTitlesAndKeys ==
    [][(ScanStep /\ is_lorebook) =>
          LET cur == clean_text(lines[i])
          IN  IF cur = <<>>
              THEN TextBlocks(story') = TextBlocks(story) /\ buffer' = buffer
              ELSE IF StartsWith(cur, S_Keys)
              THEN /\ TextBlocks(story') = TextBlocks(story) \o stated_flush(buffer)
                                           \o <<Paragraph(cur, "BookEntry")>>
                   /\ buffer' = <<>>
              ELSE IF NextBlankOrDashes
              THEN /\ TextBlocks(story') = TextBlocks(story) \o stated_flush(buffer)
                                           \o <<Paragraph(cur, "LorebookTitle")>>
                   /\ buffer' = <<>>
              ELSE /\ TextBlocks(story') = TextBlocks(story)
                   /\ buffer' = Append(buffer, cur)]_vars

\* a title, then a buffered line emitted as a paragraph ahead of a 'Keys:'
\* line, then the 'Keys:' line
TitleBodyKeysEmitted ==
    /\ is_lorebook
    /\ \E n \in 1..Len(story) :
          /\ n + 3 <= Len(story)
          /\ story[n].kind = "LorebookTitle"
          /\ story[n + 2].kind = "Content"
          /\ story[n + 3].kind = "BookEntry"
          /\ StartsWith(story[n + 3].text, S_Keys)

\* the current line is a rule of '=' that starts a name: a line that is not
\* empty and no rule of '=' follows it, and a rule of '=' follows that one
MeetsNameTriple ==
    /\ NonBlank(lines[i]) /\ AllChar(Strip(lines[i]), EQ)
    /\ i + 2 <= Len(lines)
    /\ NonBlank(lines[i + 1]) /\ ~AllChar(Strip(lines[i + 1]), EQ)
    /\ NonBlank(lines[i + 2]) /\ AllChar(Strip(lines[i + 2]), EQ)

\* the kinds of the blocks of a story, in order
Kinds(st) ==
    [n \in 1..Len(st) |-> st[n].kind]

\* how many blocks of the story are of the kind
CountOf(st, kind) ==
    Cardinality({n \in 1..Len(st) : st[n].kind = kind})

\* C20: in character mode a name block (rule, name, rule) is emitted exactly
\* when the scanner meets a line made only of '=' that a line which is not
\* empty and no rule of '=' follows, and then another line made only of '=';
\* the three lines are consumed together; a page break stands before every
\* name block but the first of the document; a rule of '=' that starts no
\* such triple emits no block.
NameBlocksFromTriples ==
    [][(ScanStep /\ ~is_lorebook) =>
          IF MeetsNameTriple
          THEN /\ i' = i + 3
               /\ Len(story') >= 5
               /\ SubSeq(Kinds(story'), Len(story') - 4, Len(story')) =
                     << IF CountOf(story, "CharacterName") > 0
                        THEN "PageBreak" ELSE "Spacer",
                        "CharacterSeparator", "CharacterName",
                        "CharacterSeparator", "Spacer" >>
               /\ story'[Len(story') - 2].text = clean_text(lines[i + 1])
               /\ CountOf(story', "CharacterName") = CountOf(story, "CharacterName") + 1
               /\ SubSeq(story', 1, Len(story') - 5) = story \o stated_flush(buffer)
          ELSE /\ CountOf(story', "CharacterName") = CountOf(story, "CharacterName")
               /\ CountOf(story', "CharacterSeparator") = CountOf(story, "CharacterSeparator")
               /\ CountOf(story', "PageBreak") = CountOf(story, "PageBreak")
               /\ (NonBlank(lines[i]) /\ AllChar(Strip(lines[i]), EQ)) =>
                     story' = story \o stated_flush(buffer)]_vars

\* two name blocks have been emitted: the first with no page break ahead of
\* it, the second with one
SecondNameAfterPageBreak ==
    /\ ~is_lorebook
    /\ CountOf(story, "CharacterName") = 2
    /\ CountOf(story, "PageBreak") = 1
    /\ Len(story) >= 5
    /\ SubSeq(Kinds(story), Len(story) - 4, Len(story)) =
          <<"PageBreak", "CharacterSeparator", "CharacterName",
            "CharacterSeparator", "Spacer">>
    /\ story[Len(story) - 2].text = <<99>>

RECURSIVE SplitAt(_, _, _)
\* the parts of s between the occurrences of sep, acc being the part begun
SplitAt(s, sep, acc) ==
    IF Len(s) = 0 THEN <<acc>>
    ELSE IF StartsWith(s, sep)
    THEN <<acc>> \o SplitAt(SubSeq(s, Len(sep) + 1, Len(s)), sep, <<>>)
    ELSE SplitAt(Tail(s), sep, Append(acc, Head(s)))

RECURSIVE emitted_lines(_)
\* the lines the blocks of a story hold, in order: the text of each text
\* block, a paragraph giving the lines joined in it
emitted_lines(blocks) ==
    IF Len(blocks) = 0 THEN <<>>
    ELSE SplitAt(blocks[1].text, <<60,98,114,47,62>>, <<>>)
         \o emitted_lines(Tail(blocks))

\* a line that counts as text: not empty, and not made only of '='
TextLine(line) ==
    Len(line) > 0 /\ ~AllChar(line, EQ)

\* the lines of the input once cleaned, in order
cleaned_lines ==
    [n \in 1..Len(lines) |-> clean_text(lines[n])]

\* C21: when the scan has ended, the lines held by the emitted blocks (name,
\* title, section title, book entry, paragraph) are, in order and each once,
\* the lines of the input that are not empty once cleaned and are no rule of
\* '='; the lines still buffered at the end of the input are in a last
\* paragraph.
NoTextLostOrDoubled ==
    pdf_pc = "done" =>
        SelectSeq(emitted_lines(TextBlocks(story)), TextLine)
            = SelectSeq(cleaned_lines, TextLine)

\* a scan has ended with its last two lines, still buffered at the end of the
\* input, flushed as the last paragraph
LastLinesFlushed ==
    /\ pdf_pc = "done"
    /\ Len(lines) >= 3
    /\ story[Len(story)].kind = "Content"
    /\ story[Len(story)].text = <<97, 98, 60,98,114,47,62, 97, 9, 98>>
    /\ Len(TextBlocks(story)) >= 2

\* handle_character_book has returned from a call with character_book
\* selected
BookFormatted ==
    /\ call.fn = "handle_character_book"
    /\ ret.state = "returned"
    /\ call.selected_fields["character_book"]

\* the entries of the character book of the call
BookEntries ==
    Item(Item(call.json_data, "character_book"), "entries").v

\* the text under a key of an entry, empty when the key is absent
entry_text(entry, k) ==
    IF HasKey(entry, k) THEN Item(entry, k).v ELSE <<>>

\* the title of an entry as stated: its name, or its comment when it has no
\* name to show
stated_book_title(entry) ==
    IF entry_text(entry, "name") # <<>> THEN entry_text(entry, "name")
    ELSE entry_text(entry, "comment")

\* the title of an entry as built: what stands under name when the entry has
\* the key name, be it empty, and its comment only when it has no key name
built_book_title(entry) ==
    IF HasKey(entry, "name") THEN entry_text(entry, "name")
    ELSE entry_text(entry, "comment")

RECURSIVE stated_book_runs(_, _)
\* the runs of the entries es, titles[n] being the title of es[n]: for each
\* entry with a title and content, in order, the line '► {title}' and the
\* content
stated_book_runs(es, titles) ==
    IF Len(es) = 0 THEN <<>>
    ELSE (IF titles[1] # <<>> /\ entry_text(es[1], "content") # <<>>
          THEN << Run(<<BULLET, SP>> \o titles[1] \o <<NL>>, "book_entry"),
                  Run(entry_text(es[1], "content") \o <<NL, NL>>, "content") >>
          ELSE <<>>)
         \o stated_book_runs(Tail(es), Tail(titles))

\* the title of the section and its separator
stated_book_head ==
    << Run(<<NL>> \o S_CHARACTER_BOOK \o <<NL>>, "section_title"),
       Run(Rep(DASH, 50) \o <<NL>>, "separator") >>

\* C22, as stated: with character_book selected and resolving to an object
\* with a sequence of entries, the runs are the title 'CHARACTER BOOK' and a
\* separator, then, in order, for every entry that has a title (its name or
\* its comment) and content, the line '► {title}' and the content; the other
\* entries give nothing.
BookEntriesAsStated ==
    BookFormatted =>
        /\ ret.value.ok
        /\ ret.value.runs = stated_book_head
              \o stated_book_runs(BookEntries,
                    [n \in 1..Len(BookEntries) |-> stated_book_title(BookEntries[n])])

\* C22, amended: as stated, but the title of an entry is what stands under its
\* key name whenever the entry has that key, and its comment only when it has
\* no key name: an entry whose name is empty gives nothing, whatever its
\* comment.
BookEntriesByNameKey ==
    BookFormatted =>
        /\ ret.value.ok
        /\ ret.value.runs = stated_book_head
              \o stated_book_runs(BookEntries,
                    [n \in 1..Len(BookEntries) |-> built_book_title(BookEntries[n])])

\* a book of an entry titled by its comment and an entry without content has
\* been formatted: the head, the line '► U' and the content 'd'
BookOfTwoFormatted ==
    /\ BookFormatted
    /\ Len(BookEntries) = 2
    /\ ~HasKey(BookEntries[1], "name")
    /\ ~HasKey(BookEntries[2], "content")
    /\ Len(ret.value.runs) = 4
    /\ ret.value.runs[3].text = <<BULLET, SP, 85, NL>>
    /\ ret.value.runs[4].text = <<100, NL, NL>>

\* the document a session holds is one the file pickers offer: the document
\* of a file, or a list of the character data of files
NewlyImported ==
    \/ \E n \in 1..Len(Files) : Files[n].status = "ok" /\ json_data = Files[n].json
    \/ /\ file_type = "character_multiple"
       /\ IsList(json_data)
       /\ \A k \in 1..Len(json_data.v) :
             \E n \in 1..Len(Files) :
                 ValidFile(Files[n]) /\ json_data.v[k] = card_data(Files[n])

\* C23: an import replaces the session as a whole. Once import_json has begun,
\* and until it returns, no selection, no preview and no extracted text of the
\* session before are left; when it returns, whatever the mode and the outcome
\* (the file picker or the field dialog cancelled, a file refused), the
\* session is the clean baseline or holds the document just imported, with
\* the selection of its own field dialog or none, and no extracted text.
ImportReplacesSession ==
    [][/\ (ui.at = "idle" /\ ui'.at # "idle") => CleanBaseline'
       /\ ui'.at # "idle" =>
             /\ extracted_text' = <<>>
             /\ selected_fields' = NoFields
       /\ (ui.at # "idle" /\ ui'.at = "idle") =>
             /\ extracted_text' = <<>>
             /\ \/ CleanBaseline'
                \/ /\ NewlyImported'
                   /\ file_type' \in {"character", "lorebook", "character_multiple"}
                   /\ selected_fields' \in DialogOutcomes(file_type')]_vars

\* a document has been imported after an extraction (the button still shows
\* the state the extraction left) and its field dialog cancelled: the session
\* holds the new document, no selection and no text
ReimportedAfterExtraction ==
    /\ ui.at = "idle"
    /\ extract_btn.state = "disabled"
    /\ ~IsNone(json_data)
    /\ selected_fields = NoFields
    /\ extracted_text = <<>>

\* the Extract Fields button is shown (packed) and enabled
ButtonEnabled ==
    extract_btn.packed /\ extract_btn.state = "normal"

\* C24: whenever the Extract Fields button is shown and enabled, a document is
\* loaded, a field selection is present and file_type is character, lorebook or
\* character_multiple; a session without a document (every reset leaves one)
\* does not show the button; the step that produces extracted text starts with
\* the button enabled and ends with it disabled or hidden, and only the field
\* dialog of an import enables it again: one extraction per import at most.
ExtractButtonOncePerImport ==
    /\ [](/\ ButtonEnabled =>
                /\ ~IsNone(json_data)
                /\ HasFields(selected_fields)
                /\ file_type \in {"character", "lorebook", "character_multiple"}
          /\ IsNone(json_data) => ~extract_btn.packed)
    /\ [][/\ (extracted_text' # extracted_text /\ extracted_text' # <<>>) =>
                ButtonEnabled /\ ~ButtonEnabled'
          /\ (ButtonEnabled /\ ui.at = "idle" /\ ui'.at = "idle"
                /\ session_vars' # session_vars) => ~ButtonEnabled'
          /\ (~ButtonEnabled /\ ButtonEnabled') => ui.at = "field_dialog"]_vars

\* an extraction has run: the button is still shown, disabled, and the text of
\* the extraction is held
ButtonDisabledByExtraction ==
    /\ extract_btn.packed
    /\ extract_btn.state = "disabled"
    /\ extracted_text # <<>>
    /\ ui.at = "idle"

\* C25: a non-empty extracted_text implies that a document is loaded and a
\* field selection is present, and it is the text that extracting the
\* selected fields of that document yields: text is there to be saved only
\* after a successful extraction of the document loaded. A session without a
\* document (every reset leaves one) and an import that has begun hold no
\* extracted text.
TextOnlyOfLoadedDocument ==
    /\ extracted_text # <<>> =>
          /\ ~IsNone(json_data)
          /\ HasFields(selected_fields)
          /\ extract_result(session).ok
          /\ extracted_text = widget_get(extract_result(session).runs)
    /\ IsNone(json_data) => extracted_text = <<>>
    /\ ui.at # "idle" => extracted_text = <<>>

\* the text of an extraction is held and a save has written it to a file
ExtractedTextSaved ==
    /\ extracted_text # <<>>
    /\ written # <<>>
    /\ written.kind = "formatted"
    /\ written.content = extracted_text

\* extract_fields runs, past its guard, in a session of several cards
ExtractsMultiple ==
    /\ file_type = "character_multiple"
    /\ ButtonEnabled
    /\ ui.at = "idle"
    /\ ui'.at = "idle"
    /\ session_vars' # session_vars

\* C26: in a character_multiple session json_data is the list of the cards,
\* never one card. An extraction that formats every card without error
\* leaves json_data the same list in the same order and file_type and
\* selected_fields as they were, and holds the text of all the cards; an
\* extraction in which formatting a card raises shows the error and leaves
\* the clean baseline.
MultipleExtractionRestoresCards ==
    /\ [](file_type = "character_multiple" => IsList(json_data))
    /\ [][ExtractsMultiple =>
             IF extract_result(session).ok
             THEN /\ json_data' = json_data
                  /\ file_type' = file_type
                  /\ selected_fields' = selected_fields
                  /\ extracted_text' = widget_get(extract_result(session).runs)
                  /\ messages' = <<>>
             ELSE /\ CleanBaseline'
                  /\ messages' = <<Message("showerror", "Error", <<>>)>>]_vars

\* the two cards of a multiple session have been extracted and the session
\* still holds the list of both
ListOfTwoKeptAfterExtraction ==
    /\ file_type = "character_multiple"
    /\ IsList(json_data)
    /\ Len(json_data.v) = 2
    /\ json_data.v[1] # json_data.v[2]
    /\ extracted_text # <<>>
    /\ extract_btn.state = "disabled"

\* a step of a save: save_txt ending without a file, a text file written or
\* refused, create_pdf started, scanning or ended
SaveStep ==
    SaveNothing \/ SaveText \/ SavePdf \/ PdfStep \/ PdfFinish

\* C27: a save never changes the session. Every step of a save, in the
\* formatted, the plain or the pdf format, whether the file is written, the
\* write fails or a dialog is cancelled, leaves json_data, selected_fields,
\* file_type and extracted_text (and the button and the preview) as they
\* were; a save with an empty extracted_text writes no file, and a file
\* written holds the text of the session or what is made of it.
SaveKeepsSession ==
    [][/\ SaveStep =>
             /\ UNCHANGED <<json_data, selected_fields, file_type, extracted_text>>
             /\ UNCHANGED session_vars
             /\ extracted_text = <<>> => written' = <<>>
       /\ (written' # <<>> /\ written' # written) =>
             /\ extracted_text' = extracted_text
             /\ extracted_text # <<>>
       /\ (SaveErrorShown' /\ messages' # messages) =>
             UNCHANGED <<json_data, selected_fields, file_type, extracted_text>>]_vars

\* a PDF has been written and the session still holds the document, the
\* selection and the text it was made of, ready to be saved again
PdfWrittenSessionKept ==
    /\ written # <<>>
    /\ written.kind = "pdf"
    /\ extracted_text # <<>>
    /\ ~IsNone(json_data)
    /\ HasFields(selected_fields)
    /\ WindowIdle

\* both import modes have been applied to the same file and selection
ModesCompared ==
    call.fn = "import_json" /\ ret.state = "returned"

\* the document of the call holds no "data" mapping and no name that is not
\* text
FlatCardOfTextName ==
    /\ ~(HasKey(call.json_data, "data") /\ IsDict(Item(call.json_data, "data")))
    /\ HasKey(call.json_data, "name") => IsStr(Item(call.json_data, "name"))

\* C28: for every document classified as a character card and every field
\* selection, importing the one file with 'Import Cards (Multiple)' yields the
\* same extracted text as importing it with 'Import Card'.
ModesYieldSameText ==
    (ModesCompared /\ detect_file_type(call.json_data) = "character") =>
        ret.value[1] = ret.value[2]

\* the two import modes yield the same extracted text on every document that
\* is classified as a character card, holds no "data" mapping and has no name
\* that is not text
ModesYieldSameTextOnFlatCards ==
    (ModesCompared /\ detect_file_type(call.json_data) = "character"
        /\ FlatCardOfTextName) =>
        ret.value[1] = ret.value[2]

====
